---- MODULE Spec2Model ----
(***************************************************************************)
(* Coin ledger, command handlers and moderation guard of the chat bots.    *)
(*                                                                         *)
(*   Spec       test.py : the Telegram handlers /add, /transfer, /coins    *)
(*              and .chk over UserManager, one handler at a time (the      *)
(*              dispatcher runs handlers sequentially in one thread).      *)
(*   SpecCrash  test.py : the same UserManager operations statement by     *)
(*              statement, with the process killed at any point and        *)
(*              restarted from users.json.                                 *)
(*   SpecGuard  bot.py  : the moderation commands /ban and /warn.          *)
(*   SpecConc   newc.py : the bot thread and the console session of        *)
(*              __main__ working on one UserManager, one read or write of  *)
(*              the shared dictionary per step (there is no lock).         *)
(*   SpecCard   test.py, newc.py, newp.py : the card validators applied to *)
(*              one payload.                                               *)
(*   SpecNotice newc.py : /broadcast on the bot thread and login on the    *)
(*              console, over UserManager.broadcasts.                      *)
(*   SpecMeter  newp.py : the handlers /balance, /add, .chk and the charge *)
(*              commands over CoinManager, one handler at a time.          *)
(*                                                                         *)
(* newc.py is modelled as its classes are written; the indented statement  *)
(* at line 9 and the missing EnhancedMenu keep the file from starting.     *)
(***************************************************************************)
EXTENDS Integers, Sequences, FiniteSets, TLC

VARIABLES
    users,      \* UserManager.users : account id -> [coins |-> Int]
    disk,       \* users.json : [st, data]
    last,       \* the last handled command and what it answered
    faulted,    \* whether a durable-write failure has been injected
    proc,       \* SpecCrash: the process and the operation it is executing
    banned,     \* SpecGuard: the members banned from the group
    glast,      \* SpecGuard: the last moderation command and its replies
    current_user, \* SpecConc: UserManager.current_user of the console
    bot,        \* SpecConc: the bot thread and the handler it executes
    con,        \* SpecConc: the console thread and the operation it executes
    hist,       \* SpecConc: the ledger at the start, the completed operations
    seen,       \* SpecConc: the balances /coins showed during a transfer
    payload,    \* SpecCard: the card payload, a str as its characters
    results,    \* SpecCard: what each validator returned for payload
    broadcasts, \* UserManager.broadcasts of newc.py
    printed     \* the lines the last login printed

ledgerVars == <<users, disk>>
cmdVars == <<last, faulted>>
crashVars == <<proc>>
guardVars == <<banned, glast>>
concVars == <<current_user, bot, con, hist, seen>>
cardVars == <<payload, results>>
noticeVars == <<broadcasts, printed>>
vars == <<users, disk, last, faulted, proc, banned, glast,
          current_user, bot, con, hist, seen, payload, results,
          broadcasts, printed>>

----------------------------------------------------------------------------
(* Bounds of the exploration.                                              *)

\* amount arguments are drawn from -1 .. MaxAmount
MaxAmount == 2

\* balances are explored within -(MaxAmount + 1) .. MaxAmount + 1
CoinRange == (0 - (MaxAmount + 1))..(MaxAmount + 1)
Amounts == (0 - 1)..MaxAmount

----------------------------------------------------------------------------
(* Identities and command arguments.                                       *)

\* ADMIN_ID of the environment, an integer Telegram id
AdminId == 1
\* update.effective_user.id of the callers
TelegramIds == {1, 2}
\* str(update.effective_user.id)
Str(n) == ToString(n)
\* the tokens a command line may carry
IdTokens == {Str(n) : n \in TelegramIds}
AmountTokens == {Str(n) : n \in Amounts} \cup {"abc"}
\* context.args of /add and /transfer: none, one or two tokens
ArgLists == {<< >>} \cup {<<t>> : t \in IdTokens}
              \cup {<<t, a>> : t \in IdTokens, a \in AmountTokens}

\* int(token): the integer a token denotes, or ValueError
IntTokens == {Str(n) : n \in Amounts}
TokenValue == [t \in IntTokens |-> CHOOSE n \in Amounts : Str(n) = t]
IsIntToken(t) == t \in IntTokens
IntOf(t) == TokenValue[t]

----------------------------------------------------------------------------
(* The durable snapshot users.json.                                        *)

EmptyLedger == [x \in {} |-> [coins |-> 0]]
NoFile == [st |-> "missing", data |-> EmptyLedger]
SaveOutcomes == {"ok", "open_fails", "write_fails"}

\* UserManager._load_users: {} when the file is missing, json.load otherwise
\* (json.load raises on a truncated file)
LoadUsers(d) ==
    CASE d.st = "missing" -> [ok |-> TRUE, users |-> EmptyLedger]
      [] d.st = "ok"      -> [ok |-> TRUE, users |-> d.data]
      [] OTHER            -> [ok |-> FALSE, users |-> EmptyLedger]

\* UserManager._save_users: open(USERS_FILE, 'w') truncates the file, then
\* json.dump writes the whole dictionary.  so is what the file system does:
\* the open fails (file untouched), or the write fails after the truncation.
SaveUsers(d, l, so) ==
    CASE so = "ok"         -> [st |-> "ok", data |-> l]
      [] so = "open_fails" -> d
      [] OTHER             -> [st |-> "partial", data |-> EmptyLedger]

SaveRet(so, ret) == IF so = "ok" THEN ret ELSE "OSError"

----------------------------------------------------------------------------
(* UserManager of test.py.  Each operation returns the ledger, the file,   *)
(* what the call returned (or the exception it raised) and whether it      *)
(* called _save_users.                                                     *)

Has(l, id) == id \in DOMAIN l
Put(l, id, rec) == [x \in DOMAIN l \cup {id} |-> IF x = id THEN rec ELSE l[x]]

\* add_coins that credits only the accounts it already holds
add_coins_known_only(l, d, user_id, amount, so) ==
    IF Has(l, user_id)
    THEN LET l2 == [l EXCEPT ![user_id].coins = @ + amount]
         IN  [users |-> l2, disk |-> SaveUsers(d, l2, so),
              ret |-> SaveRet(so, "None"), saved |-> TRUE]
    ELSE [users |-> l, disk |-> d, ret |-> "None", saved |-> FALSE]

add_coins(l, d, user_id, amount, so) ==
    LET l1 == IF ~Has(l, user_id) THEN Put(l, user_id, [coins |-> 0]) ELSE l
        l2 == [l1 EXCEPT ![user_id].coins = @ + amount]
    IN  [users |-> l2, disk |-> SaveUsers(d, l2, so),
         ret |-> SaveRet(so, "None"), saved |-> TRUE]

\* deduct_coins without the balance test
deduct_coins_unchecked(l, d, user_id, amount, so) ==
    IF Has(l, user_id)
    THEN LET l2 == [l EXCEPT ![user_id].coins = @ - amount]
         IN  [users |-> l2, disk |-> SaveUsers(d, l2, so),
              ret |-> SaveRet(so, "True"), saved |-> TRUE]
    ELSE [users |-> l, disk |-> d, ret |-> "False", saved |-> FALSE]

deduct_coins(l, d, user_id, amount, so) ==
    IF Has(l, user_id) /\ l[user_id].coins >= amount
    THEN LET l2 == [l EXCEPT ![user_id].coins = @ - amount]
         IN  [users |-> l2, disk |-> SaveUsers(d, l2, so),
              ret |-> SaveRet(so, "True"), saved |-> TRUE]
    ELSE [users |-> l, disk |-> d, ret |-> "False", saved |-> FALSE]

get_coins(l, user_id) == IF Has(l, user_id) THEN l[user_id].coins ELSE 0

\* transfer_coins that debits the sender and credits nobody
transfer_coins_no_credit(l, d, sender_id, receiver_id, amount, so) ==
    IF Has(l, sender_id) /\ Has(l, receiver_id) /\ l[sender_id].coins >= amount
    THEN LET l1 == [l EXCEPT ![sender_id].coins = @ - amount]
         IN  [users |-> l1, disk |-> SaveUsers(d, l1, so),
              ret |-> SaveRet(so, "True"), saved |-> TRUE]
    ELSE [users |-> l, disk |-> d, ret |-> "False", saved |-> FALSE]

transfer_coins(l, d, sender_id, receiver_id, amount, so) ==
    IF Has(l, sender_id) /\ Has(l, receiver_id) /\ l[sender_id].coins >= amount
    THEN LET l1 == [l EXCEPT ![sender_id].coins = @ - amount]
             l2 == [l1 EXCEPT ![receiver_id].coins = @ + amount]
         IN  [users |-> l2, disk |-> SaveUsers(d, l2, so),
              ret |-> SaveRet(so, "True"), saved |-> TRUE]
    ELSE [users |-> l, disk |-> d, ret |-> "False", saved |-> FALSE]

----------------------------------------------------------------------------
(* CoinManager of newp.py: an account is its balance, an integer.          *)

\* the ledger of test.py as CoinManager holds it
Balances(l) == [id \in DOMAIN l |-> l[id].coins]

CoinManager_deduct_coins(b, d, user_id, coins, so) ==
    IF user_id \in DOMAIN b /\ b[user_id] >= coins
    THEN LET b2 == [b EXCEPT ![user_id] = @ - coins]
         IN  [users |-> b2, disk |-> SaveUsers(d, b2, so),
              ret |-> SaveRet(so, "True"), saved |-> TRUE]
    ELSE [users |-> b, disk |-> d, ret |-> "False", saved |-> FALSE]

CoinManager_add_coins(b, d, user_id, coins, so) ==
    LET b1 == IF user_id \notin DOMAIN b
              THEN [x \in DOMAIN b \cup {user_id} |->
                       IF x = user_id THEN 0 ELSE b[x]]
              ELSE b
        b2 == [b1 EXCEPT ![user_id] = @ + coins]
    IN  [users |-> b2, disk |-> SaveUsers(d, b2, so),
         ret |-> SaveRet(so, "None"), saved |-> TRUE]

----------------------------------------------------------------------------
(* The card validators.  A str is the sequence of its characters; the      *)
(* characters here are the decimal digits, "a", "-" and the separator "|". *)
(* An operation that can raise returns what it raised in .raised.          *)

DigitChars == <<"0", "1", "2", "3", "4", "5", "6", "7", "8", "9">>
IsDigit(c) == \E i \in 1..Len(DigitChars) : DigitChars[i] = c
\* int(c) of one decimal digit
DigitValue(c) == (CHOOSE i \in 1..Len(DigitChars) : DigitChars[i] = c) - 1
AllDigits(s) == \A i \in 1..Len(s) : IsDigit(s[i])

RECURSIVE DecimalValue(_)
DecimalValue(s) ==
    IF s = << >> THEN 0
    ELSE 10 * DecimalValue(SubSeq(s, 1, Len(s) - 1)) + DigitValue(s[Len(s)])

\* int(s): an optional sign and at least one decimal digit, else ValueError
int(s) ==
    LET signed == s # << >> /\ s[1] = "-"
        body == IF signed THEN Tail(s) ELSE s
    IN  IF body # << >> /\ AllDigits(body)
        THEN [raised |-> "None",
              value |-> IF signed THEN 0 - DecimalValue(body)
                                  ELSE DecimalValue(body)]
        ELSE [raised |-> "ValueError", value |-> 0]

\* s.split('|')
RECURSIVE split(_)
split(s) ==
    IF \A i \in 1..Len(s) : s[i] # "|"
    THEN <<s>>
    ELSE LET k == CHOOSE i \in 1..Len(s) :
                      s[i] = "|" /\ \A j \in 1..(i - 1) : s[j] # "|"
         IN  <<SubSeq(s, 1, k - 1)>> \o split(SubSeq(s, k + 1, Len(s)))

\* sum(digits[i::-2]), i counted from 1
RECURSIVE SumEverySecond(_, _)
SumEverySecond(digits, i) ==
    IF i < 1 THEN 0 ELSE digits[i] + SumEverySecond(digits, i - 2)

\* the loop total += sum(divmod(2*d, 10)) over digits[i::-2]
RECURSIVE SumDivmod(_, _)
SumDivmod(digits, i) ==
    IF i < 1 THEN 0
    ELSE ((2 * digits[i]) \div 10) + ((2 * digits[i]) % 10)
           + SumDivmod(digits, i - 2)

\* the loop with total += 2*d
RECURSIVE SumDoubled(_, _)
SumDoubled(digits, i) ==
    IF i < 1 THEN 0 ELSE 2 * digits[i] + SumDoubled(digits, i - 2)

\* luhn_check that adds the doubled digits as they are
luhn_check_no_reduce(card_number) ==
    IF ~AllDigits(card_number)
    THEN [raised |-> "ValueError", value |-> FALSE]
    ELSE LET digits == [i \in 1..Len(card_number) |->
                           DigitValue(card_number[i])]
             total == SumEverySecond(digits, Len(digits))
                        + SumDoubled(digits, Len(digits) - 1)
         IN  [raised |-> "None", value |-> total % 10 = 0]

\* CardChecker.luhn_check of test.py; map(int, card_number) raises
\* ValueError on a character that is not a digit
luhn_check(card_number) ==
    IF ~AllDigits(card_number)
    THEN [raised |-> "ValueError", value |-> FALSE]
    ELSE LET digits == [i \in 1..Len(card_number) |->
                           DigitValue(card_number[i])]
             total == SumEverySecond(digits, Len(digits))
                        + SumDivmod(digits, Len(digits) - 1)
         IN  [raised |-> "None", value |-> total % 10 = 0]

\* CardChecker.luhn_check of newc.py
newc_luhn_check(card_number) ==
    IF ~AllDigits(card_number)
    THEN [raised |-> "ValueError", value |-> FALSE]
    ELSE LET digits == [i \in 1..Len(card_number) |->
                           DigitValue(card_number[i])]
             total == SumEverySecond(digits, Len(digits))
                        + SumDivmod(digits, Len(digits) - 1)
         IN  [raised |-> "None", value |-> total % 10 = 0]

\* CardManager.luhn_check of newp.py
CardManager_luhn_check(card_number) ==
    IF ~AllDigits(card_number)
    THEN [raised |-> "ValueError", value |-> FALSE]
    ELSE LET digits == [i \in 1..Len(card_number) |->
                           DigitValue(card_number[i])]
             total == SumEverySecond(digits, Len(digits))
                        + SumDivmod(digits, Len(digits) - 1)
         IN  [raised |-> "None", value |-> total % 10 = 0]

Result(status, code) == [raised |-> "None", status |-> status, code |-> code]
Raised(e) == [raised |-> e, status |-> "-", code |-> "-"]

\* the try block of CardChecker.check_card of test.py: the unpacking raises
\* ValueError unless there are four fields; int(month) is evaluated only
\* when both lengths are accepted
check_card_try(card_data) ==
    LET f == split(card_data)
        month == int(f[2])
        valid == luhn_check(f[1])
    IN  IF Len(f) # 4 THEN Raised("ValueError")
        ELSE IF Len(f[1]) \notin {13, 15, 16} \/ Len(f[4]) \notin {3, 4}
        THEN Result("DECLINED", "02")
        ELSE IF month.raised # "None" THEN Raised(month.raised)
        ELSE IF ~(1 <= month.value /\ month.value <= 12)
        THEN Result("DECLINED", "02")
        ELSE IF valid.raised # "None"
        THEN Raised(valid.raised)
        ELSE Result(IF valid.value THEN "APPROVED" ELSE "DECLINED",
                    IF valid.value THEN "00" ELSE "01")

\* check_card without its except clause
check_card_uncaught(card_data) == check_card_try(card_data)

\* check_card that reports a structural violation with the checksum code
check_card_one_code(card_data) ==
    IF check_card_try(card_data).raised # "None"
    THEN Result("INVALID", "99")
    ELSE IF check_card_try(card_data).code = "02"
    THEN Result("DECLINED", "01")
    ELSE check_card_try(card_data)

\* check_card that answers the code 01 for every number that is read
check_card_code_from_status(card_data) ==
    LET t == check_card_try(card_data)
    IN  IF t.raised # "None" THEN Result("INVALID", "99")
        ELSE IF t.code = "00" THEN Result("APPROVED", "01")
        ELSE t

\* CardChecker.check_card of test.py: except: returns INVALID / 99
check_card(card_data) ==
    LET t == check_card_try(card_data)
    IN  IF t.raised # "None" THEN Result("INVALID", "99") ELSE t

\* CardChecker.check_card of newc.py
newc_check_card_try(card_data) ==
    LET f == split(card_data)
    IN  IF Len(f) # 4 THEN Raised("ValueError")
        ELSE IF Len(f[1]) \notin {13, 15, 16} \/ Len(f[4]) \notin {3, 4}
        THEN Result("DECLINED", "02")
        ELSE IF int(f[2]).raised # "None" THEN Raised(int(f[2]).raised)
        ELSE IF ~(1 <= int(f[2]).value /\ int(f[2]).value <= 12)
        THEN Result("DECLINED", "02")
        ELSE IF newc_luhn_check(f[1]).raised # "None"
        THEN Raised(newc_luhn_check(f[1]).raised)
        ELSE Result(IF newc_luhn_check(f[1]).value THEN "APPROVED"
                                                   ELSE "DECLINED",
                    IF newc_luhn_check(f[1]).value THEN "00" ELSE "01")

newc_CardChecker_check_card(card_data) ==
    IF newc_check_card_try(card_data).raised # "None"
    THEN Result("INVALID", "99")
    ELSE newc_check_card_try(card_data)

\* CardManager._get_card_info of newp.py: card_number[0] raises IndexError
\* on the empty string
get_card_info(card_number) ==
    IF card_number = << >>
    THEN [raised |-> "IndexError", type |-> "-", bank |-> "-"]
    ELSE [raised |-> "None",
          type |-> CASE card_number[1] = "4" -> "VISA"
                     [] card_number[1] = "5" -> "MASTERCARD"
                     [] card_number[1] = "3" -> "AMEX"
                     [] OTHER -> "UNKNOWN",
          bank |-> IF card_number[1] = "5" THEN "MASTERCARD BANK"
                                           ELSE "UNKNOWN"]

\* the readings of time.time(); 0 stands for a result without response_time
Clock == {1, 2}

Validation(status, code, type, time) ==
    [raised |-> "None", status |-> status, code |-> code,
     card_type |-> type, response_time |-> time]

\* CardManager.validate_card of newp.py on the dictionary card_info, with
\* time.time() returning now; except Exception returns INVALID / 99
validate_card(card_info, now) ==
    LET is_valid == CardManager_luhn_check(card_info.card_number)
        info == get_card_info(card_info.card_number)
    IN  IF is_valid.raised # "None" \/ info.raised # "None"
        THEN Validation("INVALID", "99", "-", 0)
        ELSE Validation(IF is_valid.value THEN "APPROVED" ELSE "DECLINED",
                        IF is_valid.value THEN "00" ELSE "01",
                        info.type, now)

\* the dictionary TelegramBotHandler.check_card of newp.py builds from the
\* four fields of the payload
CardInfo(f) ==
    [card_number |-> f[1], expiration_date |-> f[2] \o <<"/">> \o f[3],
     cvv |-> f[4]]

\* the str of a sequence of digits
D(ds) == [i \in 1..Len(ds) |-> DigitChars[ds[i] + 1]]

\* 4532015112830366 and 4532015112830367
Visa16 == D(<<4, 5, 3, 2, 0, 1, 5, 1, 1, 2, 8, 3, 0, 3, 6, 6>>)
Visa16Bad == D(<<4, 5, 3, 2, 0, 1, 5, 1, 1, 2, 8, 3, 0, 3, 6, 7>>)

\* number|month|year|cvv
Token(n, mo, y, c) == n \o <<"|">> \o mo \o <<"|">> \o y \o <<"|">> \o c

\* no validator has been applied yet
NotRun == [raised |-> "NotRun", status |-> "-", code |-> "-"]
NoResults ==
    [check_card |-> NotRun, newc_check_card |-> NotRun,
     validate_card |-> [Validation("-", "-", "-", 0) EXCEPT !.raised = "NotRun"],
     luhn_check |-> [raised |-> "NotRun", value |-> FALSE]]

----------------------------------------------------------------------------
(* TelegramBotHandler of test.py.  A handler returns the outcome of the    *)
(* whole callback: the ledger and file it leaves, the reply it sent        *)
(* ("NoReply" when an exception left the handler before reply_text), the   *)
(* number shown in the reply, and what the UserManager call returned.      *)

\* the outcome of a metered handler: card is the validator's result the
\* handler holds when it ends (NotRun when it never called the validator),
\* steps the order in which it called the ledger and the validator
CardOutcome(l, d, reply, val, ret, saved, card, steps) ==
    [users |-> l, disk |-> d, reply |-> reply, val |-> val, ret |-> ret,
     saved |-> saved, card |-> card, steps |-> steps]

Outcome(l, d, reply, val, ret, saved) ==
    CardOutcome(l, d, reply, val, ret, saved, NotRun, << >>)

\* /coins by a handler that opens the account it is asked about
Handler_check_coins_creating(l, d, caller) ==
    LET l1 == IF Has(l, Str(caller)) THEN l
              ELSE Put(l, Str(caller), [coins |-> 0])
    IN  Outcome(l1, d, "Coins", get_coins(l1, Str(caller)), "-", FALSE)

\* /coins
Handler_check_coins(l, d, caller) ==
    Outcome(l, d, "Coins", get_coins(l, Str(caller)), "-", FALSE)

\* /add without the test of the caller against ADMIN_ID
Handler_add_coins_unguarded(l, d, caller, args, so) ==
    IF Len(args) < 2 \/ ~IsIntToken(args[2])
    THEN Outcome(l, d, "Usage", 0, "-", FALSE)
    ELSE LET r == add_coins(l, d, args[1], IntOf(args[2]), so)
         IN  Outcome(r.users, r.disk,
                     IF r.ret = "OSError" THEN "NoReply" ELSE "Added",
                     IntOf(args[2]), r.ret, r.saved)

\* /add [user_id] [coins]; IndexError and ValueError are caught, OSError is not
Handler_add_coins(l, d, caller, args, so) ==
    IF caller # AdminId
    THEN Outcome(l, d, "AdminRequired", 0, "-", FALSE)
    ELSE IF Len(args) < 2 \/ ~IsIntToken(args[2])
    THEN Outcome(l, d, "Usage", 0, "-", FALSE)
    ELSE LET r == add_coins(l, d, args[1], IntOf(args[2]), so)
         IN  Outcome(r.users, r.disk,
                     IF r.ret = "OSError" THEN "NoReply" ELSE "Added",
                     IntOf(args[2]), r.ret, r.saved)

\* /transfer [receiver_id] [coins]
Handler_transfer_coins(l, d, caller, args, so) ==
    IF Len(args) < 2 \/ ~IsIntToken(args[2])
    THEN Outcome(l, d, "Usage", 0, "-", FALSE)
    ELSE LET r == transfer_coins(l, d, Str(caller), args[1], IntOf(args[2]), so)
         IN  Outcome(r.users, r.disk,
                     CASE r.ret = "OSError" -> "NoReply"
                       [] r.ret = "True"    -> "Transferred"
                       [] OTHER             -> "TransferFailed",
                     IntOf(args[2]), r.ret, r.saved)

\* the coins one .chk costs
CheckCost == 1

\* the payloads of the metered commands: a card that passes the Luhn
\* rule, one that fails it, a one-letter number, and a number alone
MeterPayloads ==
    {Token(Visa16, D(<<1, 2>>), D(<<2, 7>>), D(<<1, 2, 3>>)),
     Token(Visa16Bad, D(<<1, 2>>), D(<<2, 7>>), D(<<1, 2, 3>>)),
     Token(<<"a">>, D(<<1, 2>>), D(<<2, 7>>), D(<<1, 2, 3>>)),
     Visa16}

\* self.card_checker.check_card on these payloads
CardChecker_check_card ==
    [card_data \in MeterPayloads |-> check_card(card_data)]

\* .chk <card>: the card is checked, then one coin is deducted, and the
\* result is shown when the deduction succeeded
Handler_check_card(l, d, caller, card_data, so) ==
    LET result == CardChecker_check_card[card_data]
        r == deduct_coins(l, d, Str(caller), CheckCost, so)
    IN  CardOutcome(r.users, r.disk,
                    CASE r.ret = "OSError" -> "NoReply"
                      [] r.ret = "True"    -> "CardResult"
                      [] OTHER             -> "Insufficient",
                    get_coins(r.users, Str(caller)), r.ret, r.saved,
                    result, <<"check_card", "deduct_coins">>)

----------------------------------------------------------------------------
(* Spec: the dispatcher of test.py handles one command after the other.    *)

InRange(l) == \A id \in DOMAIN l : l[id].coins \in CoinRange

\* the state a handler leaves; one durable write of a run may fail, and so
\* is spent only when _save_users ran
Commit(cmd, caller, o, so) ==
    /\ InRange(o.users)
    /\ IF o.saved /\ so # "ok" THEN ~faulted ELSE so = "ok"
    /\ users' = o.users
    /\ disk' = o.disk
    /\ faulted' = (faulted \/ (o.saved /\ so # "ok"))
    /\ UNCHANGED <<crashVars, guardVars, concVars, cardVars, noticeVars>>
    /\ last' = [cmd |-> cmd, caller |-> caller, reply |-> o.reply,
                val |-> o.val, ret |-> o.ret, saved |-> o.saved,
                card |-> o.card, steps |-> o.steps]

CmdCoins ==
    \E caller \in TelegramIds :
        Commit("coins", caller, Handler_check_coins(users, disk, caller), "ok")

CmdAdd ==
    \E caller \in TelegramIds, args \in ArgLists, so \in SaveOutcomes :
        Commit("add", caller, Handler_add_coins(users, disk, caller, args, so), so)

CmdTransfer ==
    \E caller \in TelegramIds, args \in ArgLists, so \in SaveOutcomes :
        Commit("transfer", caller,
               Handler_transfer_coins(users, disk, caller, args, so), so)

CmdCheckCard ==
    \E caller \in TelegramIds, card_data \in MeterPayloads,
       so \in SaveOutcomes :
        Commit("chk", caller,
               Handler_check_card(users, disk, caller, card_data, so), so)

NoCommand == [cmd |-> "none", caller |-> 0, reply |-> "none", val |-> 0,
              ret |-> "-", saved |-> FALSE, card |-> NotRun, steps |-> << >>]

\* no /ban or /warn handled yet
NoModeration == [cmd |-> "none", caller |-> 0, chat |-> "none", target |-> 0,
                 roster |-> {}, rosterOk |-> TRUE, banOk |-> TRUE,
                 replies |-> << >>, queried |-> FALSE, acted |-> FALSE]

\* no operation in progress; pre and post are the ledgers before and after
\* the operation that ran last
Idle(l) == [st |-> "up", pc |-> "idle", op |-> "none", crashed |-> "none",
            sender |-> "", receiver |-> "", amount |-> 0,
            pre |-> l, post |-> l]

\* a thread that executes nothing
BotIdle(n) == [pc |-> "idle", op |-> "none", uid |-> "", tmp |-> 0, n |-> n]
ConIdle(n) == [pc |-> "idle", op |-> "none", uid |-> "", receiver |-> "",
               amount |-> 0, tmp |-> 0, n |-> n]
NotSeen(l) == [vals |-> << >>, dirty |-> FALSE, pre |-> l]

\* the variables of the other specifications, at rest
RestOfInit ==
    /\ last = NoCommand
    /\ faulted = FALSE
    /\ banned = {}
    /\ glast = NoModeration
    /\ payload = << >>
    /\ results = NoResults
    /\ broadcasts = << >>
    /\ printed = << >>

\* UserManager() of a first start: no users.json yet
Init ==
    /\ users = LoadUsers(NoFile).users
    /\ disk = NoFile
    /\ RestOfInit
    /\ proc = Idle(LoadUsers(NoFile).users)
    /\ current_user = "none"
    /\ bot = BotIdle(0)
    /\ con = ConIdle(0)
    /\ hist = [init |-> LoadUsers(NoFile).users, bot |-> << >>, con |-> << >>]
    /\ seen = NotSeen(LoadUsers(NoFile).users)

Next == CmdCoins \/ CmdAdd \/ CmdTransfer \/ CmdCheckCard

Spec == Init /\ [][Next]_vars

----------------------------------------------------------------------------
(* SpecCrash: UserManager of test.py one statement at a time.  The process *)
(* can be killed between any two statements; a restart runs UserManager()  *)
(* again, which reads users.json.  Amounts are positive here.              *)

PosAmounts == 1..MaxAmount

\* add_coins, lines 55-57: the balance is raised in memory
AddMutate ==
    \E id \in IdTokens, amount \in PosAmounts :
        LET r == add_coins(users, disk, id, amount, "ok")
        IN  /\ proc.st = "up" /\ proc.pc = "idle"
            /\ InRange(r.users)
            /\ users' = r.users
            /\ proc' = [Idle(users) EXCEPT !.pc = "mutated", !.op = "add",
                                           !.receiver = id, !.amount = amount,
                                           !.post = r.users]
            /\ UNCHANGED <<disk, cmdVars, guardVars, concVars, cardVars,
                 noticeVars>>

\* deduct_coins, lines 61-62: the test passed, the balance is lowered
DeductMutate ==
    \E id \in IdTokens :
        LET r == deduct_coins(users, disk, id, CheckCost, "ok")
        IN  /\ proc.st = "up" /\ proc.pc = "idle"
            /\ r.ret = "True"
            /\ users' = r.users
            /\ proc' = [Idle(users) EXCEPT !.pc = "mutated", !.op = "deduct",
                                           !.sender = id, !.amount = CheckCost,
                                           !.post = r.users]
            /\ UNCHANGED <<disk, cmdVars, guardVars, concVars, cardVars,
                 noticeVars>>

\* transfer_coins, lines 71-73: both tests passed, the sender is debited
TransferDebit ==
    \E s \in IdTokens, r \in IdTokens, amount \in PosAmounts :
        /\ proc.st = "up" /\ proc.pc = "idle"
        /\ Has(users, s) /\ Has(users, r) /\ users[s].coins >= amount
        /\ users' = [users EXCEPT ![s].coins = @ - amount]
        /\ proc' = [Idle(users) EXCEPT
                       !.pc = "debited", !.op = "transfer", !.sender = s,
                       !.receiver = r, !.amount = amount,
                       !.post = transfer_coins(users, disk, s, r, amount, "ok").users]
        /\ UNCHANGED <<disk, cmdVars, guardVars, concVars, cardVars,
                 noticeVars>>

\* transfer_coins, line 74: the receiver is credited
TransferCredit ==
    /\ proc.st = "up" /\ proc.pc = "debited"
    /\ users' = [users EXCEPT ![proc.receiver].coins = @ + proc.amount]
    /\ proc' = [proc EXCEPT !.pc = "mutated"]
    /\ UNCHANGED <<disk, cmdVars, guardVars, concVars, cardVars,
                 noticeVars>>

\* _save_users, line 51: open(USERS_FILE, 'w') truncates users.json
SaveOpen ==
    /\ proc.st = "up" /\ proc.pc = "mutated"
    /\ disk' = [st |-> "partial", data |-> EmptyLedger]
    /\ proc' = [proc EXCEPT !.pc = "opened"]
    /\ UNCHANGED <<users, cmdVars, guardVars, concVars, cardVars,
                 noticeVars>>

\* _save_users, line 52: json.dump and the close of the file write the
\* dictionary; the operation returns
SaveWrite ==
    /\ proc.st = "up" /\ proc.pc = "opened"
    /\ disk' = SaveUsers(disk, users, "ok")
    /\ proc' = [proc EXCEPT !.pc = "idle", !.op = "none"]
    /\ UNCHANGED <<users, cmdVars, guardVars, concVars, cardVars,
                 noticeVars>>

\* the process is killed: its memory is gone, the file stays as it is
Crash ==
    /\ proc.st = "up"
    /\ users' = EmptyLedger
    /\ proc' = [proc EXCEPT !.st = "down", !.pc = "idle", !.crashed = proc.op]
    /\ UNCHANGED <<disk, cmdVars, guardVars, concVars, cardVars,
                 noticeVars>>

\* the process is started again: UserManager.__init__ loads users.json;
\* json.load raises on a truncated file and the start fails
Restart ==
    /\ proc.st = "down"
    /\ users' = LoadUsers(disk).users
    /\ proc' = [proc EXCEPT !.st = IF LoadUsers(disk).ok THEN "up" ELSE "loadfail",
                            !.op = "none"]
    /\ UNCHANGED <<disk, cmdVars, guardVars, concVars, cardVars,
                 noticeVars>>

NextCrash ==
    \/ AddMutate \/ DeductMutate \/ TransferDebit \/ TransferCredit
    \/ SaveOpen \/ SaveWrite \/ Crash \/ Restart

SpecCrash == Init /\ [][NextCrash]_vars

\* the balances of the sender and the receiver of the operation in proc
PairSum(l) ==
    get_coins(l, proc.sender) + get_coins(l, proc.receiver)

\* C6: after a crash at any point of a transfer and a restart, the reloaded
\* ledger is the one from before the transfer or the one after it, and the
\* balances of sender and receiver add up to what they added up to before.
C6_TransferCrashAtomic ==
    (proc.crashed = "transfer" /\ proc.st \in {"up", "loadfail"}
       /\ proc.pc = "idle" /\ proc.op = "none") =>
        /\ proc.st = "up"
        /\ LoadUsers(disk).users \in {proc.pre, proc.post}
        /\ PairSum(LoadUsers(disk).users) = PairSum(proc.pre)

\* C7: at every point of a save users.json holds the complete previous or
\* the complete new snapshot, so a load never finds it empty or truncated.
C7_SaveAtomic ==
    /\ LoadUsers(disk).ok
    /\ LoadUsers(disk).users \in {proc.pre, proc.post}

----------------------------------------------------------------------------
(* SpecGuard: the moderation commands of bot.py.                           *)

\* config.ADMINS, the static allow-list
ADMINS == {1}
\* context.bot.id
BotId == 9
\* update.effective_user.id of the callers of /ban and /warn
GuardCallers == {1, 2}
\* update.message.reply_to_message.from_user.id; NoTarget: not a reply
NoTarget == 0
\* the group members a message can come from: an allow-listed one and another
Members == {1, 2}
Targets == {NoTarget, BotId} \cup Members
\* update.effective_chat.type: the one-to-one chat, or a multi-party one
ChatTypes == {"private", "group"}

is_admin(user_id) == user_id \in ADMINS

Verdict(replies, queried, acted, b) ==
    [replies |-> replies, queried |-> queried, acted |-> acted, banned |-> b]

\* ban with the reply test ahead of the group test
ban_reply_first(caller, chat, target, roster, rosterOk, banOk, b) ==
    IF ~is_admin(caller)
    THEN Verdict(<<"NotPrivileged">>, FALSE, FALSE, b)
    ELSE IF target = NoTarget
    THEN Verdict(<<"NoReplyTarget">>, FALSE, FALSE, b)
    ELSE IF chat = "private"
    THEN Verdict(<<"NotInGroup">>, FALSE, FALSE, b)
    ELSE IF target = BotId
    THEN Verdict(<<"SelfTarget">>, FALSE, FALSE, b)
    ELSE IF ~rosterOk
    THEN Verdict(<<"Error">>, TRUE, FALSE, b)
    ELSE IF target \in roster
    THEN Verdict(<<"TargetIsPrivileged">>, TRUE, FALSE, b)
    ELSE IF ~banOk
    THEN Verdict(<<"Error">>, TRUE, FALSE, b)
    ELSE Verdict(<<"Banned">>, TRUE, TRUE, b \cup {target})

\* ban with the target looked up in the static allow-list, not in the roster
ban_static_allowlist(caller, chat, target, roster, rosterOk, banOk, b) ==
    IF ~is_admin(caller)
    THEN Verdict(<<"NotPrivileged">>, FALSE, FALSE, b)
    ELSE IF chat = "private"
    THEN Verdict(<<"NotInGroup">>, FALSE, FALSE, b)
    ELSE IF target = NoTarget
    THEN Verdict(<<"NoReplyTarget">>, FALSE, FALSE, b)
    ELSE IF target = BotId
    THEN Verdict(<<"SelfTarget">>, FALSE, FALSE, b)
    ELSE IF ~rosterOk
    THEN Verdict(<<"Error">>, TRUE, FALSE, b)
    ELSE IF target \in ADMINS
    THEN Verdict(<<"TargetIsPrivileged">>, TRUE, FALSE, b)
    ELSE IF ~banOk
    THEN Verdict(<<"Error">>, TRUE, FALSE, b)
    ELSE Verdict(<<"Banned">>, TRUE, TRUE, b \cup {target})

\* ban: each failing test replies and returns; get_chat_administrators
\* (roster, or an exception when ~rosterOk) is called after the first four
\* tests; ban_chat_member may raise (~banOk); except Exception replies Error
ban(caller, chat, target, roster, rosterOk, banOk, b) ==
    IF ~is_admin(caller)
    THEN Verdict(<<"NotPrivileged">>, FALSE, FALSE, b)
    ELSE IF chat = "private"
    THEN Verdict(<<"NotInGroup">>, FALSE, FALSE, b)
    ELSE IF target = NoTarget
    THEN Verdict(<<"NoReplyTarget">>, FALSE, FALSE, b)
    ELSE IF target = BotId
    THEN Verdict(<<"SelfTarget">>, FALSE, FALSE, b)
    ELSE IF ~rosterOk
    THEN Verdict(<<"Error">>, TRUE, FALSE, b)
    ELSE IF target \in roster
    THEN Verdict(<<"TargetIsPrivileged">>, TRUE, FALSE, b)
    ELSE IF ~banOk
    THEN Verdict(<<"Error">>, TRUE, FALSE, b)
    ELSE Verdict(<<"Banned">>, TRUE, TRUE, b \cup {target})

\* warn: the same tests, then the warning is sent; nobody is banned
warn(caller, chat, target, roster, rosterOk, b) ==
    IF ~is_admin(caller)
    THEN Verdict(<<"NotPrivileged">>, FALSE, FALSE, b)
    ELSE IF chat = "private"
    THEN Verdict(<<"NotInGroup">>, FALSE, FALSE, b)
    ELSE IF target = NoTarget
    THEN Verdict(<<"NoReplyTarget">>, FALSE, FALSE, b)
    ELSE IF target = BotId
    THEN Verdict(<<"SelfTarget">>, FALSE, FALSE, b)
    ELSE IF ~rosterOk
    THEN Verdict(<<"Error">>, TRUE, FALSE, b)
    ELSE IF target \in roster
    THEN Verdict(<<"TargetIsPrivileged">>, TRUE, FALSE, b)
    ELSE Verdict(<<"Warned">>, TRUE, TRUE, b)

Moderated(cmd, caller, chat, target, roster, rosterOk, banOk, v) ==
    /\ banned' = v.banned
    /\ glast' = [cmd |-> cmd, caller |-> caller, chat |-> chat,
                 target |-> target, roster |-> roster, rosterOk |-> rosterOk,
                 banOk |-> banOk, replies |-> v.replies,
                 queried |-> v.queried, acted |-> v.acted]
    /\ UNCHANGED <<ledgerVars, cmdVars, crashVars, concVars, cardVars,
                   noticeVars>>

CmdBan ==
    \E caller \in GuardCallers, chat \in ChatTypes, target \in Targets,
       roster \in SUBSET Members, rosterOk \in BOOLEAN, banOk \in BOOLEAN :
        Moderated("ban", caller, chat, target, roster, rosterOk, banOk,
                  ban(caller, chat, target, roster, rosterOk, banOk, banned))

CmdWarn ==
    \E caller \in GuardCallers, chat \in ChatTypes, target \in Targets,
       roster \in SUBSET Members, rosterOk \in BOOLEAN :
        Moderated("warn", caller, chat, target, roster, rosterOk, TRUE,
                  warn(caller, chat, target, roster, rosterOk, banned))

NextGuard == CmdBan \/ CmdWarn

SpecGuard == Init /\ [][NextGuard]_vars

Rejections ==
    {"NotPrivileged", "NotInGroup", "NoReplyTarget", "SelfTarget",
     "TargetIsPrivileged"}

\* the checks of a moderation command that fail on its inputs, by rank
FailingChecks(g) ==
    (IF g.caller \notin ADMINS THEN {1} ELSE {})
      \cup (IF g.chat = "private" THEN {2} ELSE {})
      \cup (IF g.target = NoTarget THEN {3} ELSE {})
      \cup (IF g.target = BotId THEN {4} ELSE {})
      \cup (IF g.rosterOk /\ g.target \in g.roster THEN {5} ELSE {})

ReasonOfRank ==
    <<"NotPrivileged", "NotInGroup", "NoReplyTarget", "SelfTarget",
      "TargetIsPrivileged">>

LeastOf(S) == CHOOSE x \in S : \A y \in S : x <= y

\* C10: /ban and /warn evaluate NotPrivileged, NotInGroup, NoReplyTarget,
\* SelfTarget, TargetIsPrivileged in this order, stop at the first failing
\* check and send exactly one reply, the reason of that check; a privileged
\* caller in a private chat gets NotInGroup even when a reply target exists,
\* and the roster is queried only after the first four checks have passed.
C10_GuardOrder ==
    glast.cmd \in {"ban", "warn"} =>
        /\ Len(glast.replies) = 1
        /\ (glast.queried => FailingChecks(glast) \cap 1..4 = {})
        /\ (FailingChecks(glast) \cap 1..4 # {} =>
               /\ glast.replies[1] = ReasonOfRank[LeastOf(FailingChecks(glast) \cap 1..4)]
               /\ ~glast.queried
               /\ ~glast.acted)
        /\ (FailingChecks(glast) = {5} =>
               glast.replies[1] = "TargetIsPrivileged" /\ ~glast.acted)
        /\ (glast.replies[1] \in Rejections =>
               /\ FailingChecks(glast) # {}
               /\ glast.replies[1] = ReasonOfRank[LeastOf(FailingChecks(glast))])
        /\ ((glast.caller \in ADMINS /\ glast.chat = "private") =>
               glast.replies[1] = "NotInGroup")

\* a privileged caller used /ban in a private chat as a reply to a member
C10_Witness ==
    /\ glast.cmd = "ban"
    /\ glast.caller \in ADMINS
    /\ glast.chat = "private"
    /\ glast.target \in Members
    /\ glast.replies = <<"NotInGroup">>

----------------------------------------------------------------------------
(* Claims about the ledger of test.py, under Spec.                         *)

\* C1: after any sequence of /add, /transfer, .chk and /coins commands with
\* arbitrary integer amounts (zero and negative ones included) every balance
\* is >= 0, and /coins never shows a negative number.
C1_BalanceNeverNegative ==
    /\ \A id \in DOMAIN users : users[id].coins >= 0
    /\ (last.cmd = "coins" => last.val >= 0)

\* C2: a debit of an unknown account, or of more than the balance, reports
\* failure, changes no balance, creates no account and does not write the
\* file: for every account and amount at every reachable ledger, in
\* UserManager (test.py) and CoinManager (newp.py), and for the .chk command
\* that has just been refused.
C2_DebitFailsClosed ==
    /\ \A id \in IdTokens, amount \in Amounts, so \in SaveOutcomes :
          (~Has(users, id) \/ get_coins(users, id) < amount) =>
              LET r == deduct_coins(users, disk, id, amount, so)
                  c == CoinManager_deduct_coins(Balances(users), disk, id,
                                                amount, so)
              IN  /\ r.ret = "False"
                  /\ r.users = users
                  /\ r.disk = disk
                  /\ ~r.saved
                  /\ c.ret = "False"
                  /\ c.users = Balances(users)
                  /\ c.disk = disk
                  /\ ~c.saved
    /\ (last.cmd = "chk" /\ last.reply = "Insufficient") =>
          /\ last.ret = "False"
          /\ ~last.saved
          /\ get_coins(users, Str(last.caller)) < CheckCost

\* a .chk was refused for a known account whose balance is below the cost
C2_Witness ==
    /\ last.cmd = "chk"
    /\ last.reply = "Insufficient"
    /\ Has(users, Str(last.caller))
    /\ users[Str(last.caller)].coins < CheckCost

\* C9: when the durable write of a credit, debit or transfer fails, the
\* balances in memory are those from before the operation and the command
\* answers with a failure (never with a success, never with silence).
C9_WriteFailureRollsBack ==
    [][last'.ret = "OSError" =>
          /\ users' = users
          /\ last'.reply \in {"TransferFailed", "Insufficient", "PersistenceFailure"}]_vars

----------------------------------------------------------------------------
(* UserManager and the .chk handler of newc.py, as one thread alone        *)
(* executes them.  An account is [coins, is_admin, cards_checked].         *)

\* the coins one .chk costs in newc.py
NewcCheckCost == 5

\* UserManager._show_broadcasts: the lines it prints, a heading and one
\* line per broadcast in the order of the list; nothing for an empty list
show_broadcasts(bs) ==
    IF bs # << >>
    THEN <<"--- NEW BROADCASTS ---">> \o [i \in 1..Len(bs) |-> "* " \o bs[i]]
    ELSE << >>

Done(l, result, val) == [users |-> l, result |-> result, val |-> val]

\* UserManager.add_coins(amount), without the save
newc_add_coins(l, cu, amount) ==
    IF cu # "none"
    THEN Done([l EXCEPT ![cu].coins = @ + amount], "None", 0)
    ELSE Done(l, "None", 0)

\* UserManager.transfer_coins(receiver, amount), without the save
newc_transfer_coins(l, cu, receiver, amount) ==
    IF cu # "none" /\ Has(l, receiver)
    THEN IF l[cu].coins >= amount
         THEN LET l1 == [l EXCEPT ![cu].coins = @ - amount]
              IN  Done([l1 EXCEPT ![receiver].coins = @ + amount],
                       "Transfer successful!", 0)
         ELSE Done(l, "Insufficient coins!", 0)
    ELSE Done(l, "Invalid transfer!", 0)

\* TelegramBotHandler.check_card: the reply shows the remaining coins
newc_check_card(l, uid) ==
    IF ~Has(l, uid)
    THEN Done(l, "Register", 0)
    ELSE IF l[uid].coins >= NewcCheckCost
    THEN LET l1 == [l EXCEPT ![uid].coins = @ - NewcCheckCost]
         IN  Done(l1, "CardResult", l1[uid].coins)
    ELSE Done(l, "Insufficient", 0)

----------------------------------------------------------------------------
(* SpecConc: __main__ of newc.py starts the bot in a thread of its own and *)
(* runs the console menu in the main thread; both use the same UserManager *)
(* and nothing synchronises them.  A step is one read or one write of the  *)
(* shared dictionary, as the interpreter can switch threads between any    *)
(* two of them.                                                            *)

\* operations the bot thread handles in one run
MaxBotOps == 2
\* operations the console session performs in one run
MaxConsoleOps == 1

\* balances found in users.json at the start: none, one or two checks' worth
InitCoins == {0, NewcCheckCost, 2 * NewcCheckCost}
\* the amount typed at the console: one check's worth
ConsoleAmounts == {NewcCheckCost}

Account(c) == [coins |-> c, is_admin |-> FALSE, cards_checked |-> 0]

\* UserManager() with a users.json of two registered accounts
InitConc ==
    /\ users \in [IdTokens -> {Account(c) : c \in InitCoins}]
    /\ disk = [st |-> "ok", data |-> users]
    /\ RestOfInit
    /\ proc = Idle(EmptyLedger)
    /\ current_user = "none"
    /\ bot = BotIdle(0)
    /\ con = ConIdle(0)
    /\ hist = [init |-> users, bot |-> << >>, con |-> << >>]
    /\ seen = NotSeen(users)

Entry(op, uid, receiver, amount, result, val) ==
    [op |-> op, uid |-> uid, receiver |-> receiver, amount |-> amount,
     result |-> result, val |-> val]

TransferRunning == con.op = "transfer" /\ con.pc # "idle"

\* the handler of the bot thread returns
BotDone(e) ==
    /\ bot' = BotIdle(bot.n + 1)
    /\ hist' = [hist EXCEPT !.bot = Append(@, e)]

\* the operation of the console returns
ConDone(e) ==
    /\ con' = ConIdle(con.n + 1)
    /\ hist' = [hist EXCEPT !.con = Append(@, e)]

otherVars == <<cmdVars, crashVars, guardVars, cardVars, broadcasts>>

\* login(): the session of a registered user starts
ConsoleLogin ==
    \E u \in IdTokens :
        /\ con.pc = "idle" /\ current_user = "none"
        /\ Has(users, u)
        /\ current_user' = u
        /\ printed' = show_broadcasts(broadcasts)
        /\ UNCHANGED <<users, disk, bot, con, hist, seen, otherVars>>

\* add_coins, lines 97-98: current_user is tested, the balance is read
ConsoleAddRead ==
    \E amount \in ConsoleAmounts :
        /\ con.pc = "idle" /\ con.n < MaxConsoleOps
        /\ IF current_user = "none"
           THEN ConDone(Entry("add", "none", "", amount, "None", 0))
           ELSE /\ con' = [con EXCEPT !.pc = "add_write", !.op = "add",
                                      !.uid = current_user, !.amount = amount,
                                      !.tmp = users[current_user].coins]
                /\ UNCHANGED hist
        /\ UNCHANGED <<users, disk, current_user, bot, seen, printed, otherVars>>

\* add_coins, line 98: the sum is stored
ConsoleAddWrite ==
    /\ con.pc = "add_write"
    /\ users' = [users EXCEPT ![con.uid].coins = con.tmp + con.amount]
    /\ con' = [con EXCEPT !.pc = "save"]
    /\ UNCHANGED <<disk, current_user, bot, hist, seen, printed, otherVars>>

\* transfer_coins, lines 102-103: the tests; the balance test reads the
\* balance of the sender
ConsoleTransferTest ==
    \E receiver \in IdTokens, amount \in ConsoleAmounts :
        /\ con.pc = "idle" /\ con.n < MaxConsoleOps
        /\ LET r == newc_transfer_coins(users, current_user, receiver, amount)
           IN  IF r.result = "Transfer successful!"
               THEN /\ con' = [con EXCEPT !.pc = "debit_read", !.op = "transfer",
                                          !.uid = current_user,
                                          !.receiver = receiver,
                                          !.amount = amount]
                    /\ seen' = NotSeen(users)
                    /\ UNCHANGED hist
               ELSE /\ ConDone(Entry("transfer", current_user, receiver, amount,
                                     r.result, 0))
                    /\ UNCHANGED seen
        /\ UNCHANGED <<users, disk, current_user, bot, printed, otherVars>>

\* transfer_coins, line 104: the balance of the sender is read ...
ConsoleDebitRead ==
    /\ con.pc = "debit_read"
    /\ con' = [con EXCEPT !.pc = "debit_write", !.tmp = users[con.uid].coins]
    /\ UNCHANGED <<users, disk, current_user, bot, hist, seen, printed, otherVars>>

\* ... and stored, lowered by the amount
ConsoleDebitWrite ==
    /\ con.pc = "debit_write"
    /\ users' = [users EXCEPT ![con.uid].coins = con.tmp - con.amount]
    /\ con' = [con EXCEPT !.pc = "credit_read"]
    /\ UNCHANGED <<disk, current_user, bot, hist, seen, printed, otherVars>>

\* transfer_coins, line 105: the balance of the receiver is read ...
ConsoleCreditRead ==
    /\ con.pc = "credit_read"
    /\ con' = [con EXCEPT !.pc = "credit_write",
                          !.tmp = users[con.receiver].coins]
    /\ UNCHANGED <<users, disk, current_user, bot, hist, seen, printed, otherVars>>

\* ... and stored, raised by the amount
ConsoleCreditWrite ==
    /\ con.pc = "credit_write"
    /\ users' = [users EXCEPT ![con.receiver].coins = con.tmp + con.amount]
    /\ con' = [con EXCEPT !.pc = "save"]
    /\ UNCHANGED <<disk, current_user, bot, hist, seen, printed, otherVars>>

\* _save_users at the end of add_coins and transfer_coins; the operation
\* returns
ConsoleSave ==
    /\ con.pc = "save"
    /\ disk' = SaveUsers(disk, users, "ok")
    /\ ConDone(Entry(con.op, con.uid, con.receiver, con.amount,
                     IF con.op = "transfer" THEN "Transfer successful!"
                                            ELSE "None", 0))
    /\ seen' = IF con.op = "transfer" THEN NotSeen(users) ELSE seen
    /\ UNCHANGED <<users, current_user, bot, printed, otherVars>>

\* /coins, lines 186-192: the balance of the caller is read and shown
BotCheckCoins ==
    \E caller \in TelegramIds :
        /\ bot.pc = "idle" /\ bot.n < MaxBotOps
        /\ Has(users, Str(caller))
        /\ bot' = BotIdle(bot.n + 1)
        /\ seen' = IF TransferRunning
                   THEN [seen EXCEPT !.vals = Put(@, Str(caller),
                                                  users[Str(caller)].coins)]
                   ELSE seen
        /\ UNCHANGED <<users, disk, current_user, con, hist, printed, otherVars>>

\* .chk, lines 195-204: the caller is looked up and the balance is tested
BotCheckCardTest ==
    \E caller \in TelegramIds :
        /\ bot.pc = "idle" /\ bot.n < MaxBotOps
        /\ LET r == newc_check_card(users, Str(caller))
           IN  IF r.result = "CardResult"
               THEN /\ bot' = [bot EXCEPT !.pc = "chk_read", !.op = "chk",
                                          !.uid = Str(caller)]
                    /\ UNCHANGED hist
               ELSE BotDone(Entry("chk", Str(caller), "", NewcCheckCost,
                                  r.result, 0))
        /\ UNCHANGED <<users, disk, current_user, con, seen, printed, otherVars>>

\* .chk, line 205: the balance is read ...
BotCheckCardRead ==
    /\ bot.pc = "chk_read"
    /\ bot' = [bot EXCEPT !.pc = "chk_write", !.tmp = users[bot.uid].coins]
    /\ UNCHANGED <<users, disk, current_user, con, hist, seen, printed, otherVars>>

\* ... and stored, lowered by the cost
BotCheckCardWrite ==
    /\ bot.pc = "chk_write"
    /\ users' = [users EXCEPT ![bot.uid].coins = bot.tmp - NewcCheckCost]
    /\ bot' = [bot EXCEPT !.pc = "chk_reply"]
    /\ seen' = IF TransferRunning THEN [seen EXCEPT !.dirty = TRUE] ELSE seen
    /\ UNCHANGED <<disk, current_user, con, hist, printed, otherVars>>

\* .chk, lines 206-215: the remaining coins are read and the reply is sent;
\* check_card does not call _save_users
BotCheckCardReply ==
    /\ bot.pc = "chk_reply"
    /\ BotDone(Entry("chk", bot.uid, "", NewcCheckCost, "CardResult",
                     users[bot.uid].coins))
    /\ UNCHANGED <<users, disk, current_user, con, seen, printed, otherVars>>

NextConc ==
    \/ ConsoleLogin \/ ConsoleAddRead \/ ConsoleAddWrite
    \/ ConsoleTransferTest \/ ConsoleDebitRead \/ ConsoleDebitWrite
    \/ ConsoleCreditRead \/ ConsoleCreditWrite \/ ConsoleSave
    \/ BotCheckCoins \/ BotCheckCardTest \/ BotCheckCardRead
    \/ BotCheckCardWrite \/ BotCheckCardReply

SpecConc == InitConc /\ [][NextConc]_vars

----------------------------------------------------------------------------
(* Claims about the two threads of newc.py, under SpecConc.                *)

\* the effect of a completed operation when nothing runs beside it
SerialStep(l, e) ==
    CASE e.op = "add"      -> newc_add_coins(l, e.uid, e.amount)
      [] e.op = "transfer" -> newc_transfer_coins(l, e.uid, e.receiver, e.amount)
      [] OTHER             -> newc_check_card(l, e.uid)

\* the serial execution of the operations es from ledger l: the ledger it
\* ends with, and whether every operation reports what es says it reported
RECURSIVE Replay(_, _)
Replay(l, es) ==
    IF es = << >>
    THEN [users |-> l, ok |-> TRUE]
    ELSE LET r == SerialStep(l, Head(es))
             rest == Replay(r.users, Tail(es))
         IN  [users |-> rest.users,
              ok |-> /\ r.result = Head(es).result
                     /\ r.val = Head(es).val
                     /\ rest.ok]

\* the orders of the operations of two threads that keep each thread's own
RECURSIVE Merges(_, _)
Merges(a, b) ==
    IF a = << >> THEN {b}
    ELSE IF b = << >> THEN {a}
    ELSE {<<Head(a)>> \o m : m \in Merges(Tail(a), b)}
           \cup {<<Head(b)>> \o m : m \in Merges(a, Tail(b))}

Quiescent == bot.pc = "idle" /\ con.pc = "idle"

\* C3: whatever the interleaving of the credits, debits and transfers of the
\* bot thread and the console, the final balances and the result of every
\* operation are those of some serial execution of the same operations.
C3_Linearizable ==
    Quiescent =>
        \E m \in Merges(hist.bot, hist.con) :
            /\ Replay(hist.init, m).ok
            /\ Replay(hist.init, m).users = users

\* what a completed operation took from, and gave to, account id
DebitOf(e, id) ==
    IF /\ e.uid = id
       /\ \/ e.op = "chk" /\ e.result = "CardResult"
          \/ e.op = "transfer" /\ e.result = "Transfer successful!"
    THEN e.amount ELSE 0
CreditOf(e, id) ==
    IF \/ e.op = "add" /\ e.uid = id
       \/ e.op = "transfer" /\ e.result = "Transfer successful!" /\ e.receiver = id
    THEN e.amount ELSE 0

RECURSIVE Debited(_, _)
Debited(es, id) ==
    IF es = << >> THEN 0 ELSE DebitOf(Head(es), id) + Debited(Tail(es), id)
RECURSIVE Credited(_, _)
Credited(es, id) ==
    IF es = << >> THEN 0 ELSE CreditOf(Head(es), id) + Credited(Tail(es), id)

\* C4: concurrent debits of one account test and subtract in one exclusive
\* step: no balance becomes negative, and once all operations have returned
\* the debits that reported success took no more from an account than it
\* held at the start plus what was credited to it (with equal amounts and
\* no credit: at most floor(initial balance / amount) successes).
C4_DebitsExclusive ==
    \A id \in DOMAIN users :
        /\ users[id].coins >= 0
        /\ Quiescent =>
              Debited(hist.bot \o hist.con, id)
                <= hist.init[id].coins + Credited(hist.bot \o hist.con, id)

\* C5: while a transfer from a to another account b runs and nothing else
\* changes a balance, the balances of a and b that /coins shows are those
\* from before the transfer or those after it, never a debited and b not
\* yet credited.
C5_NoHalfAppliedTransfer ==
    (/\ TransferRunning
     /\ con.uid # con.receiver
     /\ ~seen.dirty
     /\ {con.uid, con.receiver} \subseteq DOMAIN seen.vals) =>
        LET post == newc_transfer_coins(seen.pre, con.uid, con.receiver,
                                        con.amount).users
            shown == <<seen.vals[con.uid], seen.vals[con.receiver]>>
        IN  shown \in {<<seen.pre[con.uid].coins, seen.pre[con.receiver].coins>>,
                       <<post[con.uid].coins, post[con.receiver].coins>>}

\* C8: once every command that changed a balance has replied, users.json
\* holds the ledger that is in memory.
C8_WriteThrough ==
    (/\ Quiescent
     /\ \E i \in 1..Len(hist.bot \o hist.con) :
            (hist.bot \o hist.con)[i].result
                \in {"CardResult", "Transfer successful!", "None"}) =>
        disk = [st |-> "ok", data |-> users]

----------------------------------------------------------------------------
(* The privileged-only commands of the other front ends.                   *)

\* os.getenv("ADMIN_ID") of newp.py, a string
ADMIN_ID == Str(AdminId)

\* /add user_id coins of newp.py: the caller is compared as a string
newp_Handler_add_coins(b, d, caller, args, so) ==
    IF Str(caller) # ADMIN_ID
    THEN Outcome(b, d, "AdminRequired", 0, "-", FALSE)
    ELSE IF Len(args) < 2 \/ ~IsIntToken(args[2])
    THEN Outcome(b, d, "Usage", 0, "-", FALSE)
    ELSE LET r == CoinManager_add_coins(b, d, args[1], IntOf(args[2]), so)
         IN  Outcome(r.users, r.disk,
                     IF r.ret = "OSError" THEN "NoReply" ELSE "Added",
                     IntOf(args[2]), r.ret, r.saved)

\* context.args of /broadcast: the words of the message
BroadcastArgs == {<< >>, <<"hi">>, <<"hi", "all">>}
\* UserManager.broadcasts: the messages appended so far
BroadcastSeqs == {<< >>, <<"hi">>, <<"hi", "hi all">>}

\* ' '.join(context.args)
RECURSIVE Join(_)
Join(words) ==
    IF words = << >> THEN ""
    ELSE IF Len(words) = 1 THEN words[1]
    ELSE words[1] \o " " \o Join(Tail(words))

\* /broadcast that puts the message at the head of the list
broadcast_prepend(bs, caller, args) ==
    IF caller # AdminId
    THEN [broadcasts |-> bs, reply |-> "AdminRequired"]
    ELSE IF Join(args) = ""
    THEN [broadcasts |-> bs, reply |-> "Usage"]
    ELSE [broadcasts |-> <<Join(args)>> \o bs, reply |-> "BroadcastSent"]

\* /broadcast [message] of newc.py
broadcast(bs, caller, args) ==
    IF caller # AdminId
    THEN [broadcasts |-> bs, reply |-> "AdminRequired"]
    ELSE IF Join(args) = ""
    THEN [broadcasts |-> bs, reply |-> "Usage"]
    ELSE [broadcasts |-> Append(bs, Join(args)), reply |-> "BroadcastSent"]

\* C11: a caller that is not a privileged identity is rejected by /add
\* (test.py, newp.py), /broadcast (newc.py), /ban and /warn (bot.py) whatever
\* the arguments are: the ledger, the file, the broadcasts and the banned
\* members stay as they are, nothing is queried or saved, and the one reply
\* is the rejection message.
C11_NonPrivilegedRejected ==
    /\ \A caller \in TelegramIds \ {AdminId}, args \in ArgLists,
          so \in SaveOutcomes :
          LET o == Handler_add_coins(users, disk, caller, args, so)
              p == newp_Handler_add_coins(Balances(users), disk, caller,
                                          args, so)
          IN  /\ o = Outcome(users, disk, "AdminRequired", 0, "-", FALSE)
              /\ p = Outcome(Balances(users), disk, "AdminRequired", 0, "-",
                             FALSE)
    /\ \A caller \in TelegramIds \ {AdminId}, args \in BroadcastArgs,
          bs \in BroadcastSeqs :
          broadcast(bs, caller, args)
              = [broadcasts |-> bs, reply |-> "AdminRequired"]
    /\ \A caller \in GuardCallers \ ADMINS, chat \in ChatTypes,
          target \in Targets, roster \in SUBSET Members,
          rosterOk \in BOOLEAN, banOk \in BOOLEAN, b \in SUBSET Members :
          /\ ban(caller, chat, target, roster, rosterOk, banOk, b)
                = Verdict(<<"NotPrivileged">>, FALSE, FALSE, b)
          /\ warn(caller, chat, target, roster, rosterOk, b)
                = Verdict(<<"NotPrivileged">>, FALSE, FALSE, b)
    /\ (last.cmd = "add" /\ last.caller # AdminId) =>
          /\ last.reply = "AdminRequired"
          /\ ~last.saved

\* a caller other than the admin sent /add to a ledger that holds accounts
C11_Witness ==
    /\ last.cmd = "add"
    /\ last.caller # AdminId
    /\ last.reply = "AdminRequired"
    /\ users # EmptyLedger

----------------------------------------------------------------------------
(* Claims about the targets of /ban and /warn, under SpecGuard.            *)

\* the first four checks of the command in g pass and the roster was obtained
ReachedRosterCheck(g) ==
    /\ g.cmd \in {"ban", "warn"}
    /\ FailingChecks(g) \cap 1..4 = {}
    /\ g.rosterOk

\* C12: a member is banned only by a /ban on which all five checks passed;
\* a target that is in the roster get_chat_administrators returned for the
\* group is never banned or warned, the reply is TargetIsPrivileged; and the
\* fifth check looks at that roster, not at the static allow-list: a target
\* of the allow-list that is not in the roster is banned or warned.
C12_BanOnlyAfterAllChecks ==
    [][/\ banned' # banned =>
             /\ glast'.cmd = "ban"
             /\ glast'.acted
             /\ banned' = banned \cup {glast'.target}
       /\ glast'.acted =>
             /\ FailingChecks(glast') = {}
             /\ glast'.rosterOk
             /\ glast'.queried
             /\ glast'.target \notin glast'.roster
       /\ (ReachedRosterCheck(glast') /\ glast'.target \in glast'.roster) =>
             /\ glast'.replies = <<"TargetIsPrivileged">>
             /\ ~glast'.acted
             /\ banned' = banned
       /\ (/\ ReachedRosterCheck(glast')
           /\ glast'.target \notin glast'.roster
           /\ glast'.banOk) =>
             /\ glast'.acted
             /\ glast'.replies
                  = IF glast'.cmd = "ban" THEN <<"Banned">> ELSE <<"Warned">>
             /\ glast'.cmd = "ban" => glast'.target \in banned'
      ]_vars

\* a member of the allow-list that the roster did not hold has been banned,
\* and a /ban of a roster member outside the allow-list was rejected
C12_Witness ==
    /\ glast.cmd = "ban"
    /\ glast.target \in glast.roster
    /\ glast.target \notin ADMINS
    /\ glast.replies = <<"TargetIsPrivileged">>
    /\ banned \cap ADMINS # {}

----------------------------------------------------------------------------
(* SpecCard: the validators of the three front ends applied to one         *)
(* payload.  The payload is fixed at the start; each validator can be      *)
(* called on it any number of times.                                       *)

\* bare digit strings of up to this length are among the payloads
MaxDigits == 3

\* the numbers of the payloads: the two above, 378282246310005,
\* 4222222222222, the twelve digits 453201511285 (all three pass the Luhn
\* rule), sixteen characters with a letter among them, none, and a letter
CardNumbers ==
    {Visa16, Visa16Bad,
     D(<<3, 7, 8, 2, 8, 2, 2, 4, 6, 3, 1, 0, 0, 0, 5>>),
     D(<<4, 2, 2, 2, 2, 2, 2, 2, 2, 2, 2, 2, 2>>),
     D(<<4, 5, 3, 2, 0, 1, 5, 1, 1, 2, 8, 5>>),
     [Visa16 EXCEPT ![5] = "a"], << >>, <<"a">>}
Months ==
    {D(<<0, 1>>), D(<<1, 2>>), D(<<1, 3>>), D(<<0>>), <<"a">>, <<"-", "1">>,
     << >>}
Cvvs == {D(<<1, 2, 3>>), D(<<1, 2, 3, 4>>), D(<<1, 2>>), << >>}

Tokens == {Token(n, mo, D(<<2, 7>>), c) :
               n \in CardNumbers, mo \in Months, c \in Cvvs}
\* payloads with three and with five fields
Malformed ==
    {n \o <<"|">> \o mo \o <<"|">> \o c :
         n \in CardNumbers, mo \in Months, c \in Cvvs}
      \cup {Token(n, D(<<0, 1>>), D(<<2, 7>>), D(<<1, 2, 3>>)) \o <<"|">> :
                n \in CardNumbers}
\* the digit strings of up to MaxDigits characters, the empty one included
DigitStrings ==
    UNION {[1..n -> {DigitChars[i] : i \in 1..Len(DigitChars)}] :
               n \in 0..MaxDigits}

Payloads == Tokens \cup Malformed \cup DigitStrings \cup CardNumbers

InitCard ==
    /\ payload \in Payloads
    /\ results = NoResults
    /\ broadcasts = << >>
    /\ printed = << >>
    /\ users = LoadUsers(NoFile).users
    /\ disk = NoFile
    /\ last = NoCommand
    /\ faulted = FALSE
    /\ banned = {}
    /\ glast = NoModeration
    /\ proc = Idle(LoadUsers(NoFile).users)
    /\ current_user = "none"
    /\ bot = BotIdle(0)
    /\ con = ConIdle(0)
    /\ hist = [init |-> LoadUsers(NoFile).users, bot |-> << >>, con |-> << >>]
    /\ seen = NotSeen(LoadUsers(NoFile).users)

restVars == <<ledgerVars, cmdVars, crashVars, guardVars, concVars,
              noticeVars>>

\* CardChecker.luhn_check(card_number) on the number field of the payload
LuhnCheck ==
    /\ results' = [results EXCEPT !.luhn_check = luhn_check(split(payload)[1])]
    /\ UNCHANGED <<payload, restVars>>

\* test.py: self.card_checker.check_card(card_data)
CheckCard ==
    /\ results' = [results EXCEPT !.check_card = check_card(payload)]
    /\ UNCHANGED <<payload, restVars>>

\* newc.py: self.card_checker.check_card(card_data)
NewcCheckCard ==
    /\ results' = [results EXCEPT
                      !.newc_check_card = newc_CardChecker_check_card(payload)]
    /\ UNCHANGED <<payload, restVars>>

\* newp.py: the handler unpacks four fields (it gives up otherwise) and
\* calls self.card_manager.validate_card
ValidateCard ==
    \E now \in Clock :
        /\ Len(split(payload)) = 4
        /\ results' = [results EXCEPT
                          !.validate_card =
                              validate_card(CardInfo(split(payload)), now)]
        /\ UNCHANGED <<payload, restVars>>

NextCard == LuhnCheck \/ CheckCard \/ NewcCheckCard \/ ValidateCard

SpecCard == InitCard /\ [][NextCard]_vars

\* the total the Luhn rule asks for: the digit at position p from the right
\* counts as it is when p is odd; when p is even it is doubled, and 9 is
\* subtracted when the double exceeds 9
RECURSIVE LuhnTotal(_, _)
LuhnTotal(number, p) ==
    IF p > Len(number) THEN 0
    ELSE LET d == DigitValue(number[Len(number) - p + 1])
         IN  (IF p % 2 = 1 THEN d
              ELSE IF 2 * d > 9 THEN 2 * d - 9 ELSE 2 * d)
               + LuhnTotal(number, p + 1)

LuhnValid(number) == LuhnTotal(number, 1) % 10 = 0

\* C13: for every digit string luhn_check (test.py, newc.py and newp.py)
\* returns true iff the total of the Luhn rule is congruent to 0 modulo 10;
\* it returns true for 4532015112830366 and false for 4532015112830367.
C13_LuhnCorrect ==
    /\ AllDigits(split(payload)[1]) =>
          /\ luhn_check(split(payload)[1])
                = [raised |-> "None", value |-> LuhnValid(split(payload)[1])]
          /\ newc_luhn_check(split(payload)[1])
                = [raised |-> "None", value |-> LuhnValid(split(payload)[1])]
          /\ CardManager_luhn_check(split(payload)[1])
                = [raised |-> "None", value |-> LuhnValid(split(payload)[1])]
    /\ (results.luhn_check.raised = "None") =>
          results.luhn_check.value = LuhnValid(split(payload)[1])
    /\ luhn_check(Visa16) = [raised |-> "None", value |-> TRUE]
    /\ luhn_check(Visa16Bad) = [raised |-> "None", value |-> FALSE]
    /\ CardManager_luhn_check(Visa16) = [raised |-> "None", value |-> TRUE]
    /\ CardManager_luhn_check(Visa16Bad) = [raised |-> "None", value |-> FALSE]

\* luhn_check has returned true for 4532015112830366
C13_Witness ==
    /\ split(payload)[1] = Visa16
    /\ results.luhn_check = [raised |-> "None", value |-> TRUE]

----------------------------------------------------------------------------
(* Claims about the card validators, under SpecCard.                       *)

Ran(r) == r.raised # "NotRun"

\* the number field holds a character that is no digit, or its length is
\* not one of 13, 15, 16
BadNumber(card_data) ==
    \/ ~AllDigits(split(card_data)[1])
    \/ Len(split(card_data)[1]) \notin {13, 15, 16}

\* C14: a card check whose number contains a non-digit, or whose length is
\* not in {13, 15, 16}, yields INVALID, never DECLINED or APPROVED.
C14_MalformedIsInvalid ==
    BadNumber(payload) =>
        /\ Ran(results.check_card) => results.check_card.status = "INVALID"
        /\ Ran(results.newc_check_card) =>
              results.newc_check_card.status = "INVALID"
        /\ Ran(results.validate_card) =>
              results.validate_card.status = "INVALID"

\* the token is not well formed: not four fields, a number that is not 13,
\* 15 or 16 digits, a CVV of a length other than 3 or 4, or a month that is
\* not an integer of 1..12
Structural(card_data) ==
    \/ Len(split(card_data)) # 4
    \/ BadNumber(card_data)
    \/ Len(split(card_data)[4]) \notin {3, 4}
    \/ int(split(card_data)[2]).raised # "None"
    \/ int(split(card_data)[2]).value \notin 1..12

\* a well-formed token whose number fails the Luhn rule
ChecksumFailure(card_data) ==
    ~Structural(card_data) /\ ~LuhnValid(split(card_data)[1])

\* the codes check_card reports for the checksum failures and for the
\* structural violations among the payloads
ChecksumCodes ==
    {check_card(t).code : t \in {q \in Tokens : ChecksumFailure(q)}}
      \cup {newc_CardChecker_check_card(t).code :
                t \in {q \in Tokens : ChecksumFailure(q)}}
StructuralCodes ==
    {check_card(t).code : t \in {q \in Payloads : Structural(q)}}
      \cup {newc_CardChecker_check_card(t).code :
                t \in {q \in Payloads : Structural(q)}}

\* C15: check_card (test.py, newc.py) reports a structural violation of the
\* token with a code that it never reports for a well-formed token failing
\* the Luhn check, and the other way round: the two sets of codes do not
\* overlap.
C15_CodesDoNotOverlap ==
    /\ ChecksumCodes # {}
    /\ StructuralCodes \cap ChecksumCodes = {}
    /\ (Ran(results.check_card) /\ Structural(payload)) =>
          results.check_card.code \notin ChecksumCodes
    /\ (Ran(results.check_card) /\ ChecksumFailure(payload)) =>
          results.check_card.code \notin StructuralCodes
    /\ (Ran(results.newc_check_card) /\ Structural(payload)) =>
          results.newc_check_card.code \notin ChecksumCodes
    /\ (Ran(results.newc_check_card) /\ ChecksumFailure(payload)) =>
          results.newc_check_card.code \notin StructuralCodes

\* check_card has answered a token whose number fails the Luhn rule and
\* whose CVV has a wrong length
C15_Witness ==
    /\ Len(split(payload)) = 4
    /\ split(payload)[1] = Visa16Bad
    /\ Len(split(payload)[4]) \notin {3, 4}
    /\ results.check_card = Result("DECLINED", "02")
    /\ Ran(results.newc_check_card)

\* C16: for every payload check_card of test.py, check_card of newc.py and
\* validate_card of newp.py agree on status and code, and a validator
\* called again on the same input returns what it returned before.
C16_ValidatorsAgree ==
    (/\ Ran(results.check_card)
     /\ Ran(results.newc_check_card)
     /\ Ran(results.validate_card)) =>
        /\ results.check_card.status = results.newc_check_card.status
        /\ results.check_card.code = results.newc_check_card.code
        /\ results.check_card.status = results.validate_card.status
        /\ results.check_card.code = results.validate_card.code
        /\ check_card(payload) = results.check_card
        /\ newc_CardChecker_check_card(payload) = results.newc_check_card
        /\ \A now \in Clock :
              validate_card(CardInfo(split(payload)), now)
                  = results.validate_card

Statuses == {"APPROVED", "DECLINED", "INVALID"}

\* C17: for every payload (empty, with characters that are no digits, with
\* fewer or more than four fields, with a month that is no integer) the
\* validators return a result and raise nothing.
C17_ValidatorTotal ==
    /\ check_card(payload).raised = "None"
    /\ check_card(payload).status \in Statuses
    /\ newc_CardChecker_check_card(payload).raised = "None"
    /\ newc_CardChecker_check_card(payload).status \in Statuses
    /\ Len(split(payload)) = 4 =>
          \A now \in Clock :
              /\ validate_card(CardInfo(split(payload)), now).raised = "None"
              /\ validate_card(CardInfo(split(payload)), now).status
                    \in Statuses
    /\ Ran(results.check_card) => results.check_card.status \in Statuses
    /\ Ran(results.newc_check_card) =>
          results.newc_check_card.status \in Statuses
    /\ Ran(results.validate_card) => results.validate_card.status \in Statuses

\* check_card has answered INVALID to a token whose month is no integer
C17_Witness ==
    /\ Len(split(payload)) = 4
    /\ ~Structural(Token(split(payload)[1], D(<<0, 1>>), split(payload)[3],
                         split(payload)[4]))
    /\ int(split(payload)[2]).raised = "ValueError"
    /\ results.check_card = Result("INVALID", "99")
    /\ results.newc_check_card = Result("INVALID", "99")

----------------------------------------------------------------------------
(* Claims about transfers, under Spec.                                     *)

\* C18: a transfer of amount > 0 from a to b that succeeds, followed
\* immediately by the transfer of the same amount from b to a, leaves every
\* balance as it was before the two (test.py and newc.py).
C18_TransferRoundTrip ==
    \A a \in IdTokens, b \in IdTokens, amount \in PosAmounts :
        /\ LET there == transfer_coins(users, disk, a, b, amount, "ok")
               back == transfer_coins(there.users, there.disk, b, a, amount,
                                      "ok")
           IN  there.ret = "True" =>
                   /\ back.ret = "True"
                   /\ back.users = users
        /\ LET there == newc_transfer_coins(users, a, b, amount)
               back == newc_transfer_coins(there.users, b, a, amount)
           IN  (Has(users, a) /\ there.result = "Transfer successful!") =>
                   /\ back.result = "Transfer successful!"
                   /\ back.users = users

\* the /transfer of amount to receiver by caller names an unknown account
UnknownTransfer(caller, receiver) ==
    ~Has(users, Str(caller)) \/ ~Has(users, receiver)

\* both accounts are known and the sender holds less than amount
InsufficientTransfer(caller, receiver, amount) ==
    /\ Has(users, Str(caller))
    /\ Has(users, receiver)
    /\ get_coins(users, Str(caller)) < amount

\* C19: a transfer whose sender or receiver is not a known account changes
\* no balance, creates no account, does not write users.json, and reports a
\* failure that differs from the one of a transfer refused for insufficient
\* funds.
C19_UnknownAccountReported ==
    \A caller \in TelegramIds, receiver \in IdTokens, amount \in PosAmounts :
        UnknownTransfer(caller, receiver) =>
            LET o == Handler_transfer_coins(users, disk, caller,
                                            <<receiver, Str(amount)>>, "ok")
            IN  /\ o.users = users
                /\ o.disk = disk
                /\ ~o.saved
                /\ o.reply \notin {"Transferred", "Usage"}
                /\ \A c2 \in TelegramIds, r2 \in IdTokens, a2 \in PosAmounts :
                       InsufficientTransfer(c2, r2, a2) =>
                           Handler_transfer_coins(users, disk, c2,
                               <<r2, Str(a2)>>, "ok").reply # o.reply

\* C20: a transfer of amount > 0 from a known account to itself reports
\* success and leaves its balance as it is, whether or not the amount
\* exceeds the balance (test.py and newc.py).
C20_SelfTransferNoOp ==
    \A caller \in TelegramIds, amount \in PosAmounts :
        Has(users, Str(caller)) =>
            /\ LET o == Handler_transfer_coins(users, disk, caller,
                            <<Str(caller), Str(amount)>>, "ok")
               IN  /\ o.reply = "Transferred"
                   /\ o.ret = "True"
                   /\ o.users = users
            /\ LET r == newc_transfer_coins(users, Str(caller), Str(caller),
                                            amount)
               IN  /\ r.result = "Transfer successful!"
                   /\ r.users = users

----------------------------------------------------------------------------
(* Credits, lazy creation and the balance query.                           *)

\* what a ledger file holds after a save that went through
Persisted(d, l) == d.st = "ok" /\ LoadUsers(d).users = l

\* C21: a credit of a positive amount always succeeds, for a known and for
\* an unknown account alike: afterwards the account exists, its balance is
\* the previous balance (0 when it did not exist) plus the amount, no other
\* account has changed and the new ledger has been written to the file.
C21_CreditAlwaysSucceeds ==
    /\ \A id \in IdTokens, amount \in PosAmounts :
          LET r == add_coins(users, disk, id, amount, "ok")
              p == CoinManager_add_coins(Balances(users), disk, id, amount,
                                         "ok")
          IN  /\ r.ret = "None" /\ p.ret = "None"
              /\ DOMAIN r.users = DOMAIN users \cup {id}
              /\ DOMAIN p.users = DOMAIN users \cup {id}
              /\ r.users[id].coins = get_coins(users, id) + amount
              /\ p.users[id] = get_coins(users, id) + amount
              /\ \A x \in DOMAIN users \ {id} :
                    r.users[x] = users[x] /\ p.users[x] = users[x].coins
              /\ r.saved /\ Persisted(r.disk, r.users)
              /\ p.saved /\ Persisted(p.disk, p.users)
    /\ \A cu \in DOMAIN users, amount \in PosAmounts :
          LET c == newc_add_coins(users, cu, amount)
          IN  /\ DOMAIN c.users = DOMAIN users
              /\ c.users[cu].coins = users[cu].coins + amount
              /\ \A x \in DOMAIN users \ {cu} : c.users[x] = users[x]
    /\ last.cmd = "add" /\ last.reply = "Added" => Persisted(disk, users)

\* /add has created the second account of the ledger and written the file
C21_Witness ==
    /\ last.cmd = "add" /\ last.reply = "Added" /\ last.val > 0
    /\ Cardinality(DOMAIN users) = 2
    /\ \E id \in DOMAIN users : users[id].coins = last.val
    /\ Persisted(disk, users)

\* UserManager.register of newc.py, the password left out: an existing
\* username is refused, a new one gets 100 coins, or 1000 as an admin
register(l, username, admin) ==
    IF Has(l, username)
    THEN Done(l, "Username exists!", 0)
    ELSE Done(Put(l, username, [coins |-> IF admin THEN 1000 ELSE 100,
                                is_admin |-> admin, cards_checked |-> 0]),
              "Registration successful!", 0)

\* the starting balances of a STANDARD and of a PRIVILEGED account
StartBalances == {100, 1000}

\* C22: an account comes into existence on the first reference to it by a
\* ledger operation, with the starting balance 100 (STANDARD) or 1000
\* (PRIVILEGED) and all counters 0; no account ever comes into existence
\* with another starting balance.  The starting balance of an account a
\* credit creates is its balance less the amount credited; the console
\* creates accounts by register.
C22_LazyCreationDefaults ==
    [][/\ \A id \in DOMAIN users' \ DOMAIN users :
             users'[id].coins - last'.val \in StartBalances
       /\ \A id \in IdTokens \ DOMAIN users, a \in BOOLEAN :
             /\ register(users, id, a).users[id].coins \in StartBalances
             /\ register(users, id, a).users[id].cards_checked = 0]_vars

\* CoinManager.get_coins of newp.py
CoinManager_get_coins(b, user_id) == IF user_id \in DOMAIN b THEN b[user_id] ELSE 0

\* /balance of newp.py
newp_Handler_check_balance(b, d, caller) ==
    Outcome(b, d, "Coins", CoinManager_get_coins(b, Str(caller)), "-", FALSE)

\* C23: the balance query answers 0 for an account the ledger does not
\* hold and the balance for one it holds, and it only reads: it changes no
\* balance, creates no account and writes nothing to the file.
C23_BalanceQueryReadOnly ==
    /\ \A id \in IdTokens :
          /\ get_coins(users, id) = IF Has(users, id) THEN users[id].coins ELSE 0
          /\ CoinManager_get_coins(Balances(users), id) = get_coins(users, id)
    /\ \A caller \in TelegramIds :
          LET o == Handler_check_coins(users, disk, caller)
              p == newp_Handler_check_balance(Balances(users), disk, caller)
          IN  /\ o.users = users /\ o.disk = disk /\ ~o.saved
              /\ o.reply = "Coins" /\ o.val = get_coins(users, Str(caller))
              /\ p.users = Balances(users) /\ p.disk = disk /\ ~p.saved
              /\ p.reply = "Coins" /\ p.val = get_coins(users, Str(caller))
    /\ last.cmd = "coins" =>
          /\ ~last.saved
          /\ last.val = get_coins(users, Str(last.caller))
          /\ ~Has(users, Str(last.caller)) => last.val = 0

\* /coins of a caller without an account, on a ledger that holds another
\* account with coins: the answer is 0 and the caller still has no account
C23_Witness ==
    /\ last.cmd = "coins" /\ last.reply = "Coins" /\ last.val = 0
    /\ ~Has(users, Str(last.caller))
    /\ \E id \in DOMAIN users : users[id].coins > 0

----------------------------------------------------------------------------
(* The metered commands.                                                   *)

\* the cards_checked counter of an account; a record without the counter
\* counts as 0
cards_checked(l, id) ==
    IF "cards_checked" \in DOMAIN l[id] THEN l[id].cards_checked ELSE 0

\* C24: a card check by a caller with a sufficient balance costs exactly
\* one coin and adds exactly one to the caller's cards_checked counter.
C24_CheckCostsOneAndCounts ==
    [][last'.cmd = "chk" /\ last'.reply = "CardResult" =>
          /\ users'[Str(last'.caller)].coins
                 = users[Str(last'.caller)].coins - 1
          /\ cards_checked(users', Str(last'.caller))
                 = cards_checked(users, Str(last'.caller)) + 1]_vars

----------------------------------------------------------------------------
(* SpecNotice: the broadcasts of newc.py.  The bot thread handles          *)
(* /broadcast, the console logs users in; account "1" is registered.       *)

\* the broadcasts list is explored up to this length
MaxBroadcasts == 3

\* UserManager.login, with password_ok for user['password'] == password:
\* the session it leaves, the lines it printed and what it returned
login(l, cu, bs, username, password_ok) ==
    IF Has(l, username) /\ password_ok
    THEN [current_user |-> username, printed |-> show_broadcasts(bs),
          ret |-> "Welcome"]
    ELSE [current_user |-> cu, printed |-> << >>,
          ret |-> "Invalid credentials!"]

InitNotice ==
    /\ users = register(EmptyLedger, "1", FALSE).users
    /\ disk = [st |-> "ok", data |-> users]
    /\ RestOfInit
    /\ proc = Idle(EmptyLedger)
    /\ current_user = "none"
    /\ bot = BotIdle(0)
    /\ con = ConIdle(0)
    /\ hist = [init |-> users, bot |-> << >>, con |-> << >>]
    /\ seen = NotSeen(users)

\* /broadcast [message] on the bot thread
CmdBroadcast ==
    \E caller \in TelegramIds, args \in BroadcastArgs :
        LET o == broadcast(broadcasts, caller, args)
        IN  /\ Len(o.broadcasts) <= MaxBroadcasts
            /\ broadcasts' = o.broadcasts
            /\ last' = [NoCommand EXCEPT !.cmd = "broadcast",
                                         !.caller = caller, !.reply = o.reply]
            /\ UNCHANGED <<ledgerVars, faulted, crashVars, guardVars, concVars,
                           cardVars, printed>>

\* the console menu calls login
Login ==
    \E username \in IdTokens, password_ok \in BOOLEAN :
        LET o == login(users, current_user, broadcasts, username, password_ok)
        IN  /\ current_user' = o.current_user
            /\ printed' = o.printed
            /\ last' = [NoCommand EXCEPT !.cmd = "login", !.reply = o.ret]
            /\ UNCHANGED <<ledgerVars, faulted, crashVars, guardVars, bot, con,
                           hist, seen, cardVars, broadcasts>>

NextNotice == CmdBroadcast \/ Login

SpecNotice == InitNotice /\ [][NextNotice]_vars

\* C25: the broadcasts only grow, by one message put at the end, and only
\* through a /broadcast of the privileged identity with a message that is
\* not empty; a login after that prints every broadcast sent so far, each
\* once, in the order they were sent.
C25_BroadcastsAppendOnlyFifo ==
    [][/\ broadcasts' # broadcasts =>
             /\ last'.cmd = "broadcast" /\ last'.caller = AdminId
             /\ last'.reply = "BroadcastSent"
             /\ \E args \in BroadcastArgs :
                   /\ Join(args) # ""
                   /\ broadcasts' = Append(broadcasts, Join(args))
       /\ (last'.cmd = "login" /\ last'.reply = "Welcome") =>
             /\ broadcasts' = broadcasts
             /\ broadcasts # << >> => Len(printed') = Len(broadcasts) + 1
             /\ broadcasts = << >> => printed' = << >>
             /\ \A i \in 1..Len(broadcasts) :
                   printed'[i + 1] = "* " \o broadcasts[i]]_vars

\* two different broadcasts were sent and a login printed them in order
C25_Witness ==
    /\ last.cmd = "login" /\ last.reply = "Welcome"
    /\ Len(broadcasts) = 2 /\ broadcasts[1] # broadcasts[2]
    /\ printed = <<"--- NEW BROADCASTS ---", "* " \o broadcasts[1],
                   "* " \o broadcasts[2]>>

----------------------------------------------------------------------------
(* SpecMeter: the dispatcher of newp.py.  The ledger maps an id to an      *)
(* integer balance; a handler returns the outcome of the whole callback.   *)

\* ShopifyChargeManager.validate_charge, with time.time() returning now;
\* the result of the except branch has no response_time
validate_charge(card_info, now) ==
    LET is_valid == CardManager_luhn_check(card_info.card_number)
    IN  IF is_valid.raised # "None"
        THEN Validation("INVALID", "-", "-", 0)
        ELSE Validation(IF is_valid.value THEN "APPROVED" ELSE "DECLINED",
                        "-", "MASTERCARD", now)

\* /chk of a handler whose try block ends before the unpacking
newp_Handler_check_card_narrow_try(b, d, caller, card_data, so, now) ==
    LET r == CoinManager_deduct_coins(b, d, Str(caller), CheckCost, so)
        f == split(card_data)
        v == validate_card(CardInfo(f), now)
        left == CoinManager_get_coins(r.users, Str(caller))
    IN  IF r.ret # "True"
        THEN CardOutcome(r.users, r.disk,
                         IF r.ret = "OSError" THEN "NoReply" ELSE "Insufficient",
                         left, r.ret, r.saved, NotRun, <<"deduct_coins">>)
        ELSE IF Len(f) # 4
        THEN CardOutcome(r.users, r.disk, "NoReply", left, r.ret, r.saved,
                         NotRun, <<"deduct_coins">>)
        ELSE CardOutcome(r.users, r.disk,
                         IF v.status = "INVALID" THEN "CardError"
                                                 ELSE "CardResult",
                         left, r.ret, r.saved, v,
                         <<"deduct_coins", "validate_card">>)

\* /chk and .chk: one coin is deducted; then, inside try, the payload is
\* unpacked into four fields (ValueError otherwise), validate_card is
\* called and the reply is built (KeyError 'card_type' on an INVALID
\* result); except Exception replies "Error processing card data"
newp_Handler_check_card(b, d, caller, card_data, so, now) ==
    LET r == CoinManager_deduct_coins(b, d, Str(caller), CheckCost, so)
        f == split(card_data)
        v == validate_card(CardInfo(f), now)
        left == CoinManager_get_coins(r.users, Str(caller))
    IN  IF r.ret # "True"
        THEN CardOutcome(r.users, r.disk,
                         IF r.ret = "OSError" THEN "NoReply" ELSE "Insufficient",
                         left, r.ret, r.saved, NotRun, <<"deduct_coins">>)
        ELSE IF Len(f) # 4
        THEN CardOutcome(r.users, r.disk, "CardError", left, r.ret, r.saved,
                         NotRun, <<"deduct_coins">>)
        ELSE CardOutcome(r.users, r.disk,
                         IF v.status = "INVALID" THEN "CardError"
                                                 ELSE "CardResult",
                         left, r.ret, r.saved, v,
                         <<"deduct_coins", "validate_card">>)

\* context.args of /sh and /msh: none, or one payload
ChargeArgs == {<< >>} \cup {<<p>> : p \in MeterPayloads}

\* the charge commands of a handler that gives the coin back when the
\* payload has not four fields
process_shopify_charge_refund(b, d, caller, args, mass, so, now) ==
    LET r == CoinManager_deduct_coins(b, d, Str(caller), CheckCost, so)
        left == CoinManager_get_coins(r.users, Str(caller))
    IN  IF r.ret # "True"
        THEN CardOutcome(r.users, r.disk,
                         IF r.ret = "OSError" THEN "NoReply" ELSE "Insufficient",
                         left, r.ret, r.saved, NotRun, <<"deduct_coins">>)
        ELSE IF args = << >>
        THEN CardOutcome(r.users, r.disk, "ChargeError", left, r.ret, r.saved,
                         NotRun, <<"deduct_coins">>)
        ELSE IF Len(split(args[1])) # 4
        THEN CardOutcome(b, SaveUsers(r.disk, b, so), "InvalidFormat",
                         CoinManager_get_coins(b, Str(caller)), r.ret,
                         r.saved, NotRun, <<"deduct_coins", "add_coins">>)
        ELSE LET v == validate_charge(CardInfo(split(args[1])), now)
             IN  CardOutcome(r.users, r.disk,
                             CASE v.status = "INVALID" -> "ChargeError"
                               [] mass                 -> "MassChargeResult"
                               [] OTHER                -> "ChargeResult",
                             left, r.ret, r.saved, v,
                             <<"deduct_coins", "validate_charge">>)

\* _process_shopify_charge: one coin is deducted; then, inside try,
\* context.args[0] (IndexError without arguments) is split, a payload
\* without four fields is answered with the format hint, validate_charge
\* is called (three times when mass, each with the same outcome but for
\* the time) and the reply is built (KeyError 'response_time' on an
\* INVALID result); except Exception replies "Error processing charge"
process_shopify_charge(b, d, caller, args, mass, so, now) ==
    LET r == CoinManager_deduct_coins(b, d, Str(caller), CheckCost, so)
        left == CoinManager_get_coins(r.users, Str(caller))
    IN  IF r.ret # "True"
        THEN CardOutcome(r.users, r.disk,
                         IF r.ret = "OSError" THEN "NoReply" ELSE "Insufficient",
                         left, r.ret, r.saved, NotRun, <<"deduct_coins">>)
        ELSE IF args = << >>
        THEN CardOutcome(r.users, r.disk, "ChargeError", left, r.ret, r.saved,
                         NotRun, <<"deduct_coins">>)
        ELSE IF Len(split(args[1])) # 4
        THEN CardOutcome(r.users, r.disk, "InvalidFormat", left, r.ret,
                         r.saved, NotRun, <<"deduct_coins">>)
        ELSE LET v == validate_charge(CardInfo(split(args[1])), now)
             IN  CardOutcome(r.users, r.disk,
                             CASE v.status = "INVALID" -> "ChargeError"
                               [] mass                 -> "MassChargeResult"
                               [] OTHER                -> "ChargeResult",
                             left, r.ret, r.saved, v,
                             <<"deduct_coins", "validate_charge">>)

NewpInRange(b) == \A id \in DOMAIN b : b[id] \in CoinRange

\* the state a handler of newp.py leaves
NewpCommit(cmd, caller, o, so) ==
    /\ NewpInRange(o.users)
    /\ IF o.saved /\ so # "ok" THEN ~faulted ELSE so = "ok"
    /\ users' = o.users
    /\ disk' = o.disk
    /\ faulted' = (faulted \/ (o.saved /\ so # "ok"))
    /\ UNCHANGED <<crashVars, guardVars, concVars, cardVars, noticeVars>>
    /\ last' = [cmd |-> cmd, caller |-> caller, reply |-> o.reply,
                val |-> o.val, ret |-> o.ret, saved |-> o.saved,
                card |-> o.card, steps |-> o.steps]

NewpCmdBalance ==
    \E caller \in TelegramIds :
        NewpCommit("balance", caller,
                   newp_Handler_check_balance(users, disk, caller), "ok")

NewpCmdAdd ==
    \E caller \in TelegramIds, args \in ArgLists, so \in SaveOutcomes :
        NewpCommit("add", caller,
                   newp_Handler_add_coins(users, disk, caller, args, so), so)

NewpCmdCheckCard ==
    \E caller \in TelegramIds, card_data \in MeterPayloads,
       so \in SaveOutcomes, now \in Clock :
        NewpCommit("chk", caller,
                   newp_Handler_check_card(users, disk, caller, card_data, so,
                                           now), so)

NewpCmdShopifyCharge ==
    \E caller \in TelegramIds, args \in ChargeArgs, mass \in BOOLEAN,
       so \in SaveOutcomes, now \in Clock :
        NewpCommit("sh", caller,
                   process_shopify_charge(users, disk, caller, args, mass, so,
                                          now), so)

NextMeter ==
    NewpCmdBalance \/ NewpCmdAdd \/ NewpCmdCheckCard \/ NewpCmdShopifyCharge

SpecMeter == Init /\ [][NextMeter]_vars

\* the ledger of newp.py as UserManager of test.py holds it
Records(b) == [id \in DOMAIN b |-> [coins |-> b[id]]]

C27_ChargedWhateverTheResult ==
    [][/\ (last'.cmd \in {"chk", "sh"} /\ last'.ret = "True") =>
             /\ users'[Str(last'.caller)] = users[Str(last'.caller)] - 1
             /\ last'.steps[1] = "deduct_coins"
       /\ \A id \in DOMAIN users :
             users'[id] > users[id] => last'.cmd = "add"
       /\ last'.cmd = "chk" =>
             \A card_data \in MeterPayloads :
                LET o == Handler_check_card(Records(users), disk, last'.caller,
                                            card_data, "ok")
                IN  o.ret = "True" =>
                       /\ o.users[Str(last'.caller)].coins
                              = users[Str(last'.caller)] - 1
                       /\ o.steps = <<"check_card", "deduct_coins">>]_vars

\* a charge command with a number that cannot be read was answered with an
\* error, and the caller's balance is the one after the deduction
C27_Witness ==
    /\ last.cmd = "sh" /\ last.reply = "ChargeError" /\ last.ret = "True"
    /\ last.card.status = "INVALID"
    /\ users[Str(last.caller)] = last.val

\* C27 as stated: in every metered command the coin is deducted before
\* the validation is performed.
C27_DeductedBeforeValidation ==
    /\ last.steps # << >> => last.steps[1] = "deduct_coins"
    /\ \A caller \in TelegramIds, card_data \in MeterPayloads :
          CoinManager_get_coins(users, Str(caller)) >= CheckCost =>
              Handler_check_card(Records(users), disk, caller, card_data,
                                 "ok").steps[1] = "deduct_coins"

----------------------------------------------------------------------------
(* Conservation of coins, under Spec.                                      *)

\* the sum of the balances of the accounts ids of the ledger l
RECURSIVE SumOver(_, _)
SumOver(l, ids) ==
    IF ids = {} THEN 0
    ELSE LET id == CHOOSE x \in ids : TRUE
         IN  l[id].coins + SumOver(l, ids \ {id})

Supply(l) == SumOver(l, DOMAIN l)

\* C28: a transfer, whether it succeeds or fails, for any integer amount
\* and any sender and receiver (the sender itself included), leaves the sum
\* of all balances as it was; the sum changes only through a credit (/add)
\* or a debit (the coin of a card check).
C28_TransfersConserve ==
    [][LET before == Supply(users)
       IN  /\ last'.cmd \notin {"add", "chk"} => Supply(users') = before
           /\ last'.cmd = "transfer" =>
                 /\ DOMAIN users' = DOMAIN users
                 /\ Has(users, Str(last'.caller)) =>
                       \A receiver \in IdTokens, amount \in Amounts :
                          Supply(newc_transfer_coins(users, Str(last'.caller),
                                                     receiver, amount).users)
                              = before]_vars

\* a transfer of a positive amount between two accounts went through
C28_Witness ==
    /\ last.cmd = "transfer" /\ last.reply = "Transferred" /\ last.val > 0
    /\ Cardinality(DOMAIN users) = 2
    /\ users[Str(last.caller)].coins >= 0

----------------------------------------------------------------------------
(* The outcomes of check_card, under SpecCard.                             *)

\* the number length or the CVV length is not an accepted one
LengthFails(card_data) ==
    \/ Len(split(card_data)[1]) \notin {13, 15, 16}
    \/ Len(split(card_data)[4]) \notin {3, 4}

\* one of the three checks of the token fails: the number length, the CVV
\* length, or the range of a month that was read
CheckFails(card_data) ==
    /\ Len(split(card_data)) = 4
    /\ \/ LengthFails(card_data)
       \/ /\ int(split(card_data)[2]).raised = "None"
          /\ int(split(card_data)[2]).value \notin 1..12

\* reading the token raises: it has not four fields, or, the lengths being
\* accepted, the month is no integer, or, the month being in range, the
\* number holds a character that is no digit
ParsingRaises(card_data) ==
    \/ Len(split(card_data)) # 4
    \/ /\ ~LengthFails(card_data)
       /\ \/ int(split(card_data)[2]).raised # "None"
          \/ /\ int(split(card_data)[2]).value \in 1..12
             /\ ~AllDigits(split(card_data)[1])

WellFormed(card_data) == ~CheckFails(card_data) /\ ~ParsingRaises(card_data)

\* what C29 says of one result r for the payload
FourOutcomes(r) ==
    /\ r \in {Result("APPROVED", "00"), Result("DECLINED", "01"),
              Result("DECLINED", "02"), Result("INVALID", "99")}
    /\ r = Result("APPROVED", "00") <=>
          (WellFormed(payload) /\ LuhnValid(split(payload)[1]))
    /\ r = Result("DECLINED", "01") <=>
          (WellFormed(payload) /\ ~LuhnValid(split(payload)[1]))
    /\ r = Result("DECLINED", "02") <=> CheckFails(payload)
    /\ r = Result("INVALID", "99") <=> ParsingRaises(payload)

\* C29: every result of check_card (test.py, newc.py) is one of four pairs
\* of status and code: APPROVED / 00 exactly for a well-formed token whose
\* number passes the Luhn rule, DECLINED / 01 exactly for a well-formed
\* token whose number fails it, DECLINED / 02 exactly when the number
\* length, the CVV length or the month range check fails, INVALID / 99
\* exactly when reading the token raised.
C29_FourOutcomes ==
    /\ Ran(results.check_card) => FourOutcomes(results.check_card)
    /\ Ran(results.newc_check_card) => FourOutcomes(results.newc_check_card)

\* both validators have answered DECLINED / 01 for a well-formed token
\* whose number fails the Luhn rule
C29_Witness ==
    /\ WellFormed(payload)
    /\ split(payload)[1] = Visa16Bad
    /\ results.check_card = Result("DECLINED", "01")
    /\ results.newc_check_card = Result("DECLINED", "01")

====
